---- MODULE Spec2Model ----
(***************************************************************************)
(* Verification model of the Game Changers placement predictor:            *)
(*   src/data/processors.py      DataProcessor   (feature extraction)      *)
(*   src/features/engineering.py FeatureEngineer (prepare_features)        *)
(*   src/models/trainer.py       ModelTrainer    (train / predict / tune)  *)
(*   src/models/predictor.py     PlacementPredictor                        *)
(*                                                                         *)
(* Real numbers are exact rationals <<n, d>> with d > 0 in lowest terms.   *)
(* Dates are day numbers; datetime.now() is the variable now.              *)
(* A Python list is a tuple: [i \in 1..n |-> e] \o <<>> is the list built  *)
(* by a loop that appends e for each i.                                    *)
(***************************************************************************)
EXTENDS Integers, Sequences, FiniteSets, TLC

VARIABLES
    now,              \* datetime.now(), as a day number
    models,           \* ModelTrainer.models: candidate name -> estimator object
    best_model,       \* ModelTrainer.best_model: a reference (see Deref)
    best_model_name,  \* ModelTrainer.best_model_name
    is_trained,       \* ModelTrainer.is_trained
    is_fitted,        \* FeatureEngineer.is_fitted
    scaler,           \* what FeatureEngineer.imputer and .scaler have learned
    tournaments,      \* TournamentManager.tournaments: key -> TournamentConfig
    disk,             \* the file at the model path: None or a joblib blob
    call,             \* the call last made by the caller, with its outcome
    first             \* the first extract_features observation of the caller

vars == <<now, models, best_model, best_model_name, is_trained, is_fitted, scaler,
          tournaments, disk, call, first>>

trainerVars == <<models, best_model, best_model_name, is_trained>>

engineerVars == <<is_fitted, scaler>>

None == "None"

(***************************************************************************)
(* Bounds of the model.                                                    *)
(***************************************************************************)
MaxTicks == 4     \* how many times the clock advances
MaxTeams == 9     \* longest batch handed to the predictor
MaxBase  == 3     \* distinct leading teams of a batch; the rest repeat them
MaxRows  == 5     \* most rows of a training matrix
MaxMae   == 1     \* cross-validated MAE values are 0..MaxMae
MaxExtract == 2   \* longest batch handed to extract_features and predict
MaxPlayers == 6   \* largest roster of a generated team
MaxMatches == 2   \* longest match history of a generated team
MaxHistory == 7   \* longest win/loss history of a team whose form is measured
MaxHistorical == 3  \* most labelled teams gathered from the historical tournaments
MaxInference == 2   \* most teams of the tournament being predicted
MaxValidated == 5 \* longest list of predictions handed to the validator
MaxPlacement == 5 \* predicted placements handed to the validator are 1..MaxPlacement
GridSteps == 2    \* a composite input in [0,1] is k / GridSteps, k = 0..GridSteps
MaxTournamentTeams == 3  \* most team descriptors of a configured tournament

(***************************************************************************)
(* Exact rational arithmetic.                                              *)
(***************************************************************************)
Abs(a) == IF a < 0 THEN -a ELSE a

RECURSIVE GCD(_, _)
GCD(a, b) == IF b = 0 THEN a ELSE GCD(b, a % b)

Rat(n, d) ==
    LET g == GCD(Abs(n), Abs(d))
        s == IF d < 0 THEN -1 ELSE 1
    IN  <<(s * n) \div g, (s * d) \div g>>

RInt(k) == <<k, 1>>
RAdd(a, b) == Rat(a[1] * b[2] + b[1] * a[2], a[2] * b[2])
RSub(a, b) == Rat(a[1] * b[2] - b[1] * a[2], a[2] * b[2])
RMul(a, b) == Rat(a[1] * b[1], a[2] * b[2])
RDiv(a, b) == Rat(a[1] * b[2], a[2] * b[1])
RLess(a, b) == a[1] * b[2] < b[1] * a[2]
RLeq(a, b) == a[1] * b[2] <= b[1] * a[2]
RMin(a, b) == IF RLess(b, a) THEN b ELSE a
RMax(a, b) == IF RLess(a, b) THEN b ELSE a
RAbs(a) == <<Abs(a[1]), a[2]>>

RECURSIVE RSum(_)
RSum(s) == IF s = <<>> THEN RInt(0) ELSE RAdd(Head(s), RSum(Tail(s)))

(***************************************************************************)
(* Teams (src/domain/entities.py).  A player's stats map may lack keys;    *)
(* a match carries opponent, result and an event label ("" when absent);   *)
(* formed_date is <<day>>, or <<>> for a team without a formation date.    *)
(***************************************************************************)
default_player_stats ==
    [rating |-> Rat(105, 100), acs |-> RInt(210), kdr |-> RInt(1), kast |-> Rat(75, 100)]

weak_player_stats ==
    [acs |-> RInt(190), kdr |-> Rat(9, 10), kast |-> Rat(65, 100)]

max_days == 365

DayStep == max_days \div 5

StartDay == 2 * DayStep

TeamPool ==
    << [id |-> "t1", name |-> "G2 Gozen", region |-> "EMEA",
        players |-> [i \in 1..5 |-> default_player_stats],
        formed_date |-> <<0>>,
        recent_matches |->
          << [opponent |-> "Team Liquid Brazil", result |-> "win",
              event |-> "Game Changers Championship"],
             [opponent |-> "Team A", result |-> "win", event |-> ""] >>],
       [id |-> "t2", name |-> "MIBR GC", region |-> "BR",
        players |-> [i \in 1..4 |-> IF i = 1 THEN weak_player_stats
                                              ELSE default_player_stats],
        formed_date |-> <<StartDay>>,
        recent_matches |-> <<>>],
       [id |-> "t3", name |-> "Ninetails", region |-> "APAC",
        players |-> <<>>,
        formed_date |-> <<>>,
        recent_matches |->
          << [opponent |-> "G2 Gozen", result |-> "loss",
              event |-> "Tournament Stage 1"] >>] >>

Get(stats, key, default) == IF key \in DOMAIN stats THEN stats[key] ELSE default

\* 'Game Changers' in event, over the event labels of the pool
HasGameChangers(event) == event \in {"Game Changers Championship"}

strong_opponents == {"G2 Gozen", "Team Liquid Brazil", "Shopify Rebellion Gold"}

(***************************************************************************)
(* DataProcessor (src/data/processors.py).                                 *)
(***************************************************************************)
days_together(team, today) == today - team.formed_date[1]

calculate_roster_stability(team, today) ==
    IF team.formed_date = <<>>
    THEN Rat(1, 2)
    ELSE LET stability == RMin(Rat(days_together(team, today), max_days), RInt(1))
             roster_completeness == Rat(Len(team.players), 5)
         IN  RMul(stability, roster_completeness)

StatTotal(team, key) ==
    RSum([i \in 1..Len(team.players) |-> Get(team.players[i], key, RInt(0))])

calculate_individual_performance_NeutralDefault(team) ==
    IF team.players = <<>>
    THEN [avg_rating |-> Rat(1, 2), avg_acs |-> Rat(1, 2),
          avg_kdr |-> Rat(1, 2), avg_kast |-> Rat(1, 2)]
    ELSE LET num_players == RInt(Len(team.players))
         IN  [avg_rating |-> RDiv(StatTotal(team, "rating"), num_players),
              avg_acs    |-> RDiv(StatTotal(team, "acs"), num_players),
              avg_kdr    |-> RDiv(StatTotal(team, "kdr"), num_players),
              avg_kast   |-> RDiv(StatTotal(team, "kast"), num_players)]

calculate_individual_performance(team) ==
    IF team.players = <<>>
    THEN [avg_rating |-> RInt(0), avg_acs |-> RInt(0),
          avg_kdr |-> RInt(0), avg_kast |-> RInt(0)]
    ELSE LET num_players == RInt(Len(team.players))
         IN  [avg_rating |-> RDiv(StatTotal(team, "rating"), num_players),
              avg_acs    |-> RDiv(StatTotal(team, "acs"), num_players),
              avg_kdr    |-> RDiv(StatTotal(team, "kdr"), num_players),
              avg_kast   |-> RDiv(StatTotal(team, "kast"), num_players)]

Count(flags) == Cardinality({i \in 1..Len(flags) : flags[i]})

IsWin(match) == match.result = "win"

calculate_team_performance_AllMatches(team) ==
    IF team.recent_matches = <<>>
    THEN [win_rate |-> Rat(1, 2), recent_form |-> Rat(1, 2),
          strength_of_schedule |-> Rat(1, 2)]
    ELSE LET ms == team.recent_matches
             total_matches == Len(ms)
             wins == Count([i \in 1..Len(ms) |-> IsWin(ms[i])])
             win_rate == Rat(wins, total_matches)
             considered == total_matches
             form_weight == RSum([i \in 1..considered |-> Rat(1, i)])
             form_sum == RSum([i \in 1..considered |->
                                 IF IsWin(ms[i]) THEN Rat(1, i) ELSE RInt(0)])
             recent_form == IF RLess(RInt(0), form_weight)
                            THEN RDiv(form_sum, form_weight) ELSE win_rate
             IsStrong(m) == m.opponent \in strong_opponents
             strong_opponent_matches ==
                 Count([i \in 1..Len(ms) |-> IsStrong(ms[i])])
             strength_of_schedule ==
                 RAdd(Rat(1, 2),
                      RMul(Rat(strong_opponent_matches, total_matches), Rat(3, 10)))
         IN  [win_rate |-> win_rate,
              recent_form |-> recent_form,
              strength_of_schedule |-> RMin(strength_of_schedule, RInt(1))]

calculate_team_performance(team) ==
    IF team.recent_matches = <<>>
    THEN [win_rate |-> Rat(1, 2), recent_form |-> Rat(1, 2),
          strength_of_schedule |-> Rat(1, 2)]
    ELSE LET ms == team.recent_matches
             total_matches == Len(ms)
             wins == Count([i \in 1..Len(ms) |-> IsWin(ms[i])])
             win_rate == Rat(wins, total_matches)
             considered == IF total_matches < 6 THEN total_matches ELSE 6
             form_weight == RSum([i \in 1..considered |-> Rat(1, i)])
             form_sum == RSum([i \in 1..considered |->
                                 IF IsWin(ms[i]) THEN Rat(1, i) ELSE RInt(0)])
             recent_form == IF RLess(RInt(0), form_weight)
                            THEN RDiv(form_sum, form_weight) ELSE win_rate
             IsStrong(m) == m.opponent \in strong_opponents
             strong_opponent_matches ==
                 Count([i \in 1..Len(ms) |-> IsStrong(ms[i])])
             strength_of_schedule ==
                 RAdd(Rat(1, 2),
                      RMul(Rat(strong_opponent_matches, total_matches), Rat(3, 10)))
         IN  [win_rate |-> win_rate,
              recent_form |-> recent_form,
              strength_of_schedule |-> RMin(strength_of_schedule, RInt(1))]

calculate_tournament_performance_ZeroDefault(team) ==
    IF team.recent_matches = <<>>
    THEN RInt(0)
    ELSE LET ms == team.recent_matches
             IsGC(m) == HasGameChangers(m.event)
             IsGCWin(m) == IsGC(m) /\ IsWin(m)
             gc_count == Count([i \in 1..Len(ms) |-> IsGC(ms[i])])
         IN  IF gc_count = 0
             THEN Rat(1, 2)
             ELSE Rat(Count([i \in 1..Len(ms) |-> IsGCWin(ms[i])]), gc_count)

calculate_tournament_performance(team) ==
    IF team.recent_matches = <<>>
    THEN Rat(1, 2)
    ELSE LET ms == team.recent_matches
             IsGC(m) == HasGameChangers(m.event)
             IsGCWin(m) == IsGC(m) /\ IsWin(m)
             gc_count == Count([i \in 1..Len(ms) |-> IsGC(ms[i])])
         IN  IF gc_count = 0
             THEN Rat(1, 2)
             ELSE Rat(Count([i \in 1..Len(ms) |-> IsGCWin(ms[i])]), gc_count)

TeamFeatures(team, today) ==
    LET individual_perf == calculate_individual_performance(team)
        team_perf == calculate_team_performance(team)
    IN  [team_id |-> team.id,
         roster_stability |-> calculate_roster_stability(team, today),
         avg_player_rating |-> individual_perf.avg_rating,
         avg_acs |-> individual_perf.avg_acs,
         avg_kdr |-> individual_perf.avg_kdr,
         avg_kast |-> individual_perf.avg_kast,
         win_rate |-> team_perf.win_rate,
         recent_form |-> team_perf.recent_form,
         strength_of_schedule |-> team_perf.strength_of_schedule,
         tournament_results |-> calculate_tournament_performance(team)]

extract_features(teams, today) ==
    [i \in 1..Len(teams) |-> TeamFeatures(teams[i], today)] \o <<>>

(***************************************************************************)
(* Batches of teams: the first MaxBase teams are chosen freely from the    *)
(* pool, the following ones repeat them in the same order.                 *)
(***************************************************************************)
Batch(base, n) == [i \in 1..n |-> TeamPool[base[((i - 1) % Len(base)) + 1]]] \o <<>>

Batches ==
    UNION {{Batch(base, n) : base \in [1..b -> 1..Len(TeamPool)]} :
             <<b, n>> \in {p \in (1..MaxBase) \X (1..MaxTeams) : p[1] <= p[2]}}

(***************************************************************************)
(* Generated teams: any roster size up to MaxPlayers, a formation date     *)
(* that is absent, a year before the start or the start day, and any       *)
(* history of up to MaxMatches matches.                                    *)
(***************************************************************************)
GeneratedRoster(k, weak) ==
    [i \in 1..k |-> IF weak /\ i = 1 THEN weak_player_stats
                                     ELSE default_player_stats] \o <<>>

MatchKinds ==
    {[opponent |-> "G2 Gozen", result |-> "win", event |-> "Game Changers Championship"],
     [opponent |-> "G2 Gozen", result |-> "loss", event |-> "Game Changers Championship"],
     [opponent |-> "Team A", result |-> "win", event |-> ""],
     [opponent |-> "Team A", result |-> "loss", event |-> ""]}

Histories == UNION {[1..n -> MatchKinds] : n \in 0..MaxMatches}

FormationDates == {<<>>, <<0>>, <<StartDay>>}

GeneratedTeams ==
    {[id |-> "test", name |-> "Test Team", region |-> "TEST",
      players |-> GeneratedRoster(k, weak),
      formed_date |-> formed,
      recent_matches |-> history] :
        k \in 0..MaxPlayers, weak \in BOOLEAN,
        formed \in FormationDates, history \in Histories}

\* teams that differ only in their sequence of wins and losses, most recent
\* first, long enough to reach past the six matches that form looks at
FormTeams ==
    {[id |-> "test", name |-> "Test Team", region |-> "TEST",
      players |-> GeneratedRoster(5, FALSE),
      formed_date |-> <<>>,
      recent_matches |->
          [i \in 1..n |-> [opponent |-> "Team A",
                           result |-> IF w[i] THEN "win" ELSE "loss",
                           event |-> ""]] \o <<>>] :
        <<n, w>> \in UNION {{n} \X [1..n -> BOOLEAN] : n \in 0..MaxHistory}}

(***************************************************************************)
(* FeatureEngineer.prepare_features (src/features/engineering.py).  The    *)
(* imputer and the scaler learn per-column statistics of the batch they    *)
(* are fitted on; the standardized matrix is the rows together with the    *)
(* statistics they are standardized by.                                    *)
(***************************************************************************)
FeatureColumns ==
    <<"roster_stability", "avg_player_rating", "avg_acs", "avg_kdr", "avg_kast",
      "win_rate", "recent_form", "strength_of_schedule", "tournament_results">>

ColumnSum(features, col) ==
    RSum([i \in 1..Len(features) |-> features[i][col]])

ColumnSumSq(features, col) ==
    RSum([i \in 1..Len(features) |-> RMul(features[i][col], features[i][col])])

\* what StandardScaler.fit learns: mean_ = sum / n_samples and
\* var_ = sum_sq / n_samples - mean_ ^ 2, kept as the exact sums.  No value
\* of a batch is missing, so the imputer's medians are never used.
FitStatistics(features) ==
    [n_samples |-> Len(features),
     sum    |-> [c \in 1..Len(FeatureColumns) |->
                   ColumnSum(features, FeatureColumns[c])] \o <<>>,
     sum_sq |-> [c \in 1..Len(FeatureColumns) |->
                   ColumnSumSq(features, FeatureColumns[c])] \o <<>>]

Mean(stats, c) == RDiv(stats.sum[c], RInt(stats.n_samples))

\* the branch of prepare_features that fits: (df, df_scaled)
prepare_features_fit(features) ==
    [df |-> features, X |-> [rows |-> features, stats |-> FitStatistics(features)]]

\* FeatureEngineer.__init__: nothing learned yet
NoStatistics == [n_samples |-> 0, sum |-> <<>>, sum_sq |-> <<>>]

NewEngineer == [is_fitted |-> FALSE, scaler |-> NoStatistics]

EngineerState == [is_fitted |-> is_fitted, scaler |-> scaler]

ShouldFit_OnRequest(eng, fit_scaler) == fit_scaler

\* if fit_scaler or not self.is_fitted
ShouldFit(eng, fit_scaler) == fit_scaler \/ ~eng.is_fitted

prepare_features_AlwaysFit(eng, features, fit_scaler) ==
    [state |-> [is_fitted |-> TRUE, scaler |-> FitStatistics(features)],
     df |-> features,
     X |-> [rows |-> features, stats |-> FitStatistics(features)]]

\* prepare_features on the engineer eng: the engineer afterwards and the
\* returned (df, df_scaled).  imputer and scaler are always fitted together,
\* on the same batch, so one record stands for what both have learned.
prepare_features(eng, features, fit_scaler) ==
    IF ShouldFit(eng, fit_scaler)
    THEN [state |-> [is_fitted |-> TRUE, scaler |-> FitStatistics(features)],
          df |-> features,
          X |-> [rows |-> features, stats |-> FitStatistics(features)]]
    ELSE [state |-> eng,
          df |-> features,
          X |-> [rows |-> features, stats |-> eng.scaler]]

\* the weighted blend without its weights
CompositeRow_Unweighted(row) ==
    LET individual_skill ==
            RDiv(RAdd(RAdd(RMul(row.avg_player_rating, Rat(4, 10)),
                           RMul(row.avg_acs, Rat(2, 10))),
                      RAdd(RMul(row.avg_kdr, Rat(2, 10)),
                           RMul(row.avg_kast, Rat(2, 10)))),
                 RInt(200))
        tournament_impact == RMul(row.tournament_results, row.strength_of_schedule)
    IN  [stability_performance |-> RMul(row.roster_stability, row.avg_player_rating),
         form_consistency |-> RMul(row.win_rate, row.recent_form),
         individual_skill |-> individual_skill,
         tournament_impact |-> tournament_impact,
         team_strength_index |->
             RSum(<<individual_skill, row.win_rate, row.recent_form,
                    row.roster_stability, tournament_impact>>)] @@ row

\* the five derived columns of one row, next to its primitive columns
CompositeRow(row) ==
    LET individual_skill ==
            RDiv(RAdd(RAdd(RMul(row.avg_player_rating, Rat(4, 10)),
                           RMul(row.avg_acs, Rat(2, 10))),
                      RAdd(RMul(row.avg_kdr, Rat(2, 10)),
                           RMul(row.avg_kast, Rat(2, 10)))),
                 RInt(200))
        tournament_impact == RMul(row.tournament_results, row.strength_of_schedule)
    IN  [stability_performance |-> RMul(row.roster_stability, row.avg_player_rating),
         form_consistency |-> RMul(row.win_rate, row.recent_form),
         individual_skill |-> individual_skill,
         tournament_impact |-> tournament_impact,
         team_strength_index |->
             RSum(<<RMul(individual_skill, Rat(3, 10)),
                    RMul(row.win_rate, Rat(25, 100)),
                    RMul(row.recent_form, Rat(2, 10)),
                    RMul(row.roster_stability, Rat(15, 100)),
                    RMul(tournament_impact, Rat(1, 10))>>)] @@ row

create_composite_features(df) ==
    [i \in 1..Len(df) |-> CompositeRow(df[i])] \o <<>>

\* rows handed to create_composite_features: every primitive column on the
\* grid of [0,1]; avg_acs may also be a raw combat score
UnitGrid == {Rat(k, GridSteps) : k \in 0..GridSteps}

CompositeInputs ==
    {[c \in {FeatureColumns[k] : k \in 1..Len(FeatureColumns)} |->
         IF c = "avg_acs" THEN acs ELSE value[c]] :
       value \in [{FeatureColumns[k] : k \in 1..Len(FeatureColumns)} \ {"avg_acs"}
                     -> UnitGrid],
       acs \in UnitGrid \cup {default_player_stats.acs}}

(***************************************************************************)
(* Estimators.  A candidate is the scikit-learn object stored in           *)
(* ModelTrainer.models; fit = 0 is the unfitted object, fit = n the object *)
(* fitted on the n-row training matrix, tuned marks a grid-search result.  *)
(***************************************************************************)
ModelOrder == <<"random_forest", "gradient_boosting", "ridge">>

ModelNames == {ModelOrder[i] : i \in 1..Len(ModelOrder)}

Estimator(family, fit, tuned) == [family |-> family, fit |-> fit, tuned |-> tuned]

NoEstimator == Estimator(None, 0, FALSE)

\* references held in best_model
NoneRef == [kind |-> "none", name |-> None, est |-> NoEstimator]
CandidateRef(name) == [kind |-> "candidate", name |-> name, est |-> NoEstimator]
ObjectRef(est) == [kind |-> "object", name |-> None, est |-> est]

TrainerState ==
    [models |-> models, best_model |-> best_model,
     best_model_name |-> best_model_name, is_trained |-> is_trained]

\* the estimator object a reference denotes
Deref(st, ref) ==
    IF ref.kind = "candidate" THEN st.models[ref.name] ELSE ref.est

(***************************************************************************)
(* estimator.predict(X) of the library: a fixed regression per fitted      *)
(* estimator, in tenths of a placement.  The regressor reads the           *)
(* standardized win_rate column (below, at or above the scaler's mean).    *)
(***************************************************************************)
Intercept(est) ==
    (CASE est.family = "random_forest" -> 34
       [] est.family = "gradient_boosting" -> 25
       [] OTHER -> 70)
    + 10 * (est.fit - 3)

Slope(est) ==
    (CASE est.family = "random_forest" -> -2
       [] est.family = "gradient_boosting" -> 10
       [] OTHER -> -20)
    * (IF est.tuned THEN 4 ELSE 1)

StandardizedSign(row, stats) ==
    LET mean_win_rate == Mean(stats, 6)
    IN  IF RLess(row.win_rate, mean_win_rate) THEN 0
        ELSE IF RLess(mean_win_rate, row.win_rate) THEN 2 ELSE 1

\* a raw score: the rational q, plus a positive infinitesimal when eps
Raw(q, eps) == [q |-> q, eps |-> eps]

EstimatorPredict(est, X) ==
    [i \in 1..Len(X.rows) |->
        Raw(Rat(Intercept(est) + Slope(est) * StandardizedSign(X.rows[i], X.stats), 10),
            FALSE)] \o <<>>

(***************************************************************************)
(* ModelTrainer (src/models/trainer.py).  Each method is an operator from  *)
(* the trainer state and the call's inputs to the new state and outcome.   *)
(***************************************************************************)
train_min_rows == 3    \* if len(X) < 3 in train_models

tune_min_rows == 5     \* len(X) < 5 in hyperparameter_tuning

NewTrainer ==
    [models |-> [name \in ModelNames |-> Estimator(name, 0, FALSE)],
     best_model |-> NoneRef,
     best_model_name |-> None,
     is_trained |-> FALSE]

Outcome(st, ret_none, ret, raised) ==
    [state |-> st, ret_none |-> ret_none, ret |-> ret, raised |-> raised]

ModelIndex(name) == CHOOSE i \in 1..Len(ModelOrder) : ModelOrder[i] = name

\* the candidates after the loop has called model.fit(X, y) on the first k
FitFirst(st, k, n) ==
    [name \in ModelNames |->
        IF ModelIndex(name) <= k THEN Estimator(name, n, FALSE) ELSE st.models[name]]

\* a selection where a tie goes to the last minimal key
MinMaeKey_Last(mae) ==
    ModelOrder[CHOOSE i \in 1..Len(ModelOrder) :
                  \A j \in 1..Len(ModelOrder) :
                      /\ mae[ModelOrder[i]] <= mae[ModelOrder[j]]
                      /\ (j > i => mae[ModelOrder[j]] > mae[ModelOrder[i]])]

\* min(results.keys(), key=cv_mae_mean): the first minimal key in dict order
MinMaeKey(mae) ==
    ModelOrder[CHOOSE i \in 1..Len(ModelOrder) :
                  \A j \in 1..Len(ModelOrder) :
                      /\ mae[ModelOrder[i]] <= mae[ModelOrder[j]]
                      /\ (j < i => mae[ModelOrder[j]] > mae[ModelOrder[i]])]

NoFailure == [at |-> 0, phase |-> None]

\* where cross_val_score or model.fit raises: at candidate 1..3
Failures ==
    {NoFailure} \cup [at : 1..Len(ModelOrder), phase : {"cv", "fit"}]

\* an early return that also forgets the selected model
InsufficientData_Resets(st) ==
    Outcome([st EXCEPT !.is_trained = FALSE, !.best_model = NoneRef,
                       !.best_model_name = None],
            TRUE, <<>>, None)

\* the branch len(X) < 3 of train_models
InsufficientData(st) ==
    Outcome([st EXCEPT !.is_trained = FALSE], TRUE, <<>>, None)

\* an except branch that forgets to clear is_trained
TrainFailed_KeepsFlag(st, failure, n) ==
    Outcome([st EXCEPT !.models = FitFirst(st, failure.at - 1, n)], TRUE, <<>>, None)

\* the except branch of train_models
TrainFailed(st, failure, n) ==
    Outcome([st EXCEPT !.models = FitFirst(st, failure.at - 1, n),
                       !.is_trained = FALSE],
            TRUE, <<>>, None)

\* a training that selects the best candidate but never sets is_trained
train_models_FlagUnset(st, n, mae, failure) ==
    IF n < train_min_rows
    THEN InsufficientData(st)
    ELSE IF failure.at > 0
    THEN TrainFailed(st, failure, n)
    ELSE LET name == MinMaeKey(mae)
         IN  Outcome([models |-> FitFirst(st, Len(ModelOrder), n),
                      best_model |-> CandidateRef(name),
                      best_model_name |-> name,
                      is_trained |-> st.is_trained],
                     FALSE, [k \in ModelNames |-> [cv_mae_mean |-> mae[k],
                                                    model |-> CandidateRef(k)]],
                     None)

train_models(st, n, mae, failure) ==
    IF n < train_min_rows
    THEN InsufficientData(st)
    ELSE IF failure.at > 0
    THEN TrainFailed(st, failure, n)
    ELSE LET name == MinMaeKey(mae)
         IN  Outcome([models |-> FitFirst(st, Len(ModelOrder), n),
                      best_model |-> CandidateRef(name),
                      best_model_name |-> name,
                      is_trained |-> TRUE],
                     FALSE, [k \in ModelNames |-> [cv_mae_mean |-> mae[k],
                                                    model |-> CandidateRef(k)]],
                     None)

\* a predict that delegates to the candidate stored under best_model_name
predict_FromCandidate(st, X) ==
    IF st.best_model.kind # "none" /\ st.is_trained
    THEN LET est == st.models[st.best_model_name]
         IN  IF est.fit = 0
             THEN Outcome(st, TRUE, <<>>, "NotFittedError")
             ELSE Outcome(st, FALSE, EstimatorPredict(est, X), None)
    ELSE Outcome(st, TRUE, <<>>, "NotFittedError")

\* self.best_model.predict(X): the library raises on an unfitted estimator
predict(st, X) ==
    IF st.best_model.kind # "none" /\ st.is_trained
    THEN LET est == Deref(st, st.best_model)
         IN  IF est.fit = 0
             THEN Outcome(st, TRUE, <<>>, "NotFittedError")
             ELSE Outcome(st, FALSE, EstimatorPredict(est, X), None)
    ELSE Outcome(st, TRUE, <<>>, "NotFittedError")

\* an except branch of the tuning that gives up the trained state
TuneFailed_Untrains(st) ==
    Outcome([st EXCEPT !.is_trained = FALSE], TRUE, <<>>, None)

\* the except branch of hyperparameter_tuning
TuneFailed(st) == Outcome(st, TRUE, <<>>, None)

\* a tuning that refits the candidate in place
TuneSucceeded_InPlace(st, n) ==
    Outcome([st EXCEPT !.models[st.best_model_name] =
                           Estimator(st.best_model_name, n, TRUE)],
            TRUE, <<>>, None)

\* self.best_model = grid_search.best_estimator_: GridSearchCV clones the
\* candidate, the candidate itself stays as it is
TuneSucceeded(st, n) ==
    Outcome([st EXCEPT !.best_model =
                           ObjectRef(Estimator(st.best_model_name, n, TRUE))],
            TRUE, <<>>, None)

\* a tuning whose gate reads "and" for "or"
hyperparameter_tuning_WeakGate(st, n, grid_fails) ==
    IF ~st.is_trained /\ n < tune_min_rows
    THEN Outcome(st, TRUE, <<>>, None)
    ELSE IF st.best_model_name \notin ModelNames \/ grid_fails
    THEN TuneFailed(st)
    ELSE TuneSucceeded(st, n)

hyperparameter_tuning(st, n, grid_fails) ==
    IF ~st.is_trained \/ n < tune_min_rows
    THEN Outcome(st, TRUE, <<>>, None)
    ELSE IF st.best_model_name \notin ModelNames \/ grid_fails
    THEN TuneFailed(st)
    ELSE TuneSucceeded(st, n)

(***************************************************************************)
(* Persistence: the file at the model path.                                *)
(***************************************************************************)
NoFile == [exists |-> FALSE, model |-> NoneRef, model_name |-> None, is_trained |-> FALSE]

Blob(model, name, trained) ==
    [exists |-> TRUE, model |-> model, model_name |-> name, is_trained |-> trained]

\* a dump that stores the reference, not a copy of the estimator
save_model_ByReference(st, file) ==
    IF st.best_model.kind # "none" /\ st.is_trained
    THEN Blob(st.best_model, st.best_model_name, st.is_trained)
    ELSE file

\* returns the new file; joblib.dump pickles a copy of the estimator
save_model(st, file) ==
    IF st.best_model.kind # "none" /\ st.is_trained
    THEN Blob(ObjectRef(Deref(st, st.best_model)), st.best_model_name, st.is_trained)
    ELSE file

\* a load that restores the flag alone
load_model_FlagOnly(st, file) ==
    IF file.exists
    THEN [st EXCEPT !.is_trained = file.is_trained]
    ELSE st

load_model(st, file) ==
    IF file.exists
    THEN [st EXCEPT !.best_model = file.model,
                    !.best_model_name = file.model_name,
                    !.is_trained = file.is_trained]
    ELSE st

\* a file at the model path that save_model did not write
ForeignBlobs == {Blob(NoneRef, None, TRUE)}

(***************************************************************************)
(* PlacementPredictor (src/models/predictor.py).                           *)
(***************************************************************************)
\* weights of roster_stability, avg_player_rating, win_rate, recent_form,
\* strength_of_schedule
FallbackScore(row) ==
    RSum(<< RMul(Rat(15, 100), row.roster_stability),
            RMul(Rat(35, 100), row.avg_player_rating),
            RMul(Rat(5, 10), row.win_rate),
            RMul(Rat(3, 10), row.recent_form),
            RMul(Rat(2, 10), row.strength_of_schedule) >>)

RECURSIVE SeqMin(_)
SeqMin(s) == IF Len(s) = 1 THEN s[1] ELSE RMin(s[1], SeqMin(Tail(s)))

RECURSIVE SeqMax(_)
SeqMax(s) == IF Len(s) = 1 THEN s[1] ELSE RMax(s[1], SeqMax(Tail(s)))

\* the same scores mapped without the reversal: placement = 1 + normalized * 7
_fallback_prediction_Ascending(df) ==
    LET scores == [i \in 1..Len(df) |-> FallbackScore(df[i])] \o <<>>
        lo == SeqMin(scores)
        hi == SeqMax(scores)
    IN  [i \in 1..Len(df) |->
            IF scores[i] = lo
            THEN Raw(RInt(1), FALSE)
            ELSE Raw(RAdd(RInt(1),
                          RMul(RInt(7), RDiv(RSub(scores[i], lo), RSub(hi, lo)))),
                     FALSE)] \o <<>>

\* normalized = (s - min) / (max - min + 1e-8); placement = 1 + (1 - normalized) * 7.
\* The 1e-8 is a positive infinitesimal: a team above the minimum gets
\* 8 - 7 (s - min) / (max - min) plus an infinitesimal, the others exactly 8.
_fallback_prediction(df) ==
    LET scores == [i \in 1..Len(df) |-> FallbackScore(df[i])] \o <<>>
        lo == SeqMin(scores)
        hi == SeqMax(scores)
    IN  [i \in 1..Len(df) |->
            IF scores[i] = lo
            THEN Raw(RInt(8), FALSE)
            ELSE Raw(RSub(RInt(8),
                          RMul(RInt(7), RDiv(RSub(scores[i], lo), RSub(hi, lo)))),
                     TRUE)] \o <<>>

\* int(round(x)): round half to even
PyRound(raw) ==
    LET n == raw.q[1]
        d == raw.q[2]
        fl == n \div d
        r == n - fl * d
    IN  IF 2 * r < d THEN fl
        ELSE IF 2 * r > d THEN fl + 1
        ELSE IF raw.eps THEN fl + 1
        ELSE IF fl % 2 = 0 THEN fl ELSE fl + 1

\* the confidence without the upper clamp
_calculate_confidence_unclamped(prediction) ==
    RMax(Rat(3, 10), RDiv(RAbs(RSub(prediction.q, Rat(45, 10))), Rat(35, 10)))

\* max(0.3, min(0.9, abs(prediction - 4.5) / 3.5))
_calculate_confidence(prediction) ==
    LET middle == Rat(45, 10)
        distance_from_middle == RAbs(RSub(prediction.q, middle))
        confidence == RDiv(distance_from_middle, Rat(35, 10))
    IN  RMax(Rat(3, 10), RMin(Rat(9, 10), confidence))

\* the key of results.sort
SortKey(result) == result.predicted_placement

\* list.sort is stable: a record goes behind every record whose key is not larger
RECURSIVE InsertSorted(_, _)
InsertSorted(sorted, r) ==
    IF sorted = <<>> THEN <<r>>
    ELSE IF SortKey(sorted[Len(sorted)]) <= SortKey(r) THEN Append(sorted, r)
    ELSE Append(InsertSorted(SubSeq(sorted, 1, Len(sorted) - 1), r), sorted[Len(sorted)])

RECURSIVE SortResults(_)
SortResults(results) ==
    IF results = <<>> THEN <<>>
    ELSE InsertSorted(SortResults(SubSeq(results, 1, Len(results) - 1)),
                      results[Len(results)])

\* while placement in used_placements and placement < 8: placement += 1
RECURSIVE NextFree(_, _)
NextFree(placement, used) ==
    IF placement \in used /\ placement < 8 THEN NextFree(placement + 1, used)
    ELSE placement

Clamp(lo, hi, x) == IF x < lo THEN lo ELSE IF x > hi THEN hi ELSE x

\* the first loop of _adjust_placements over results[i..]
RECURSIVE GreedyPlacements(_, _, _)
GreedyPlacements(results, i, used) ==
    IF i > Len(results) THEN results
    ELSE LET placement == Clamp(1, 8, NextFree(results[i].predicted_placement, used))
         IN  GreedyPlacements([results EXCEPT ![i].predicted_placement = placement],
                              i + 1, used \cup {placement})

\* _adjust_placements without its second loop
Relabel_Skipped(results) == results

\* the second loop: result['predicted_placement'] = i + 1
Relabel(results) ==
    [i \in 1..Len(results) |-> [results[i] EXCEPT !.predicted_placement = i]] \o <<>>

_adjust_placements(results) == Relabel(GreedyPlacements(results, 1, {}))

\* the results loop stopping after eight teams
BuildResults_TopEight(teams, features, predictions) ==
    [i \in 1..(IF Len(teams) < 8 THEN Len(teams) ELSE 8) |->
        [team |-> teams[i].name,
         region |-> teams[i].region,
         predicted_placement |-> PyRound(predictions[i]),
         confidence_score |-> _calculate_confidence(predictions[i]),
         features |-> [roster_stability |-> features[i].roster_stability,
                       avg_player_rating |-> features[i].avg_player_rating,
                       win_rate |-> features[i].win_rate,
                       recent_form |-> features[i].recent_form],
         input_index |-> i]] \o <<>>

\* the result records in input order; input_index is bookkeeping of the
\* model (the position of the team in the input list), not a key of the dict
BuildResults(teams, features, predictions) ==
    [i \in 1..Len(teams) |->
        [team |-> teams[i].name,
         region |-> teams[i].region,
         predicted_placement |-> PyRound(predictions[i]),
         confidence_score |-> _calculate_confidence(predictions[i]),
         features |-> [roster_stability |-> features[i].roster_stability,
                       avg_player_rating |-> features[i].avg_player_rating,
                       win_rate |-> features[i].win_rate,
                       recent_form |-> features[i].recent_form],
         input_index |-> i]] \o <<>>

\* the try block without its except clause
RawPredictions_NoCatch(st, prepared) ==
    IF st.is_trained
    THEN LET fromModel == predict(st, prepared.X)
         IN  [predictions |-> fromModel.ret, fallback |-> FALSE,
              raised |-> fromModel.raised, state |-> fromModel.state]
    ELSE [predictions |-> _fallback_prediction(prepared.df), fallback |-> TRUE,
          raised |-> None, state |-> st]

\* the try block: the trained model's scores, or the heuristic's when the
\* trainer is untrained or predict raises NotFittedError
RawPredictions(st, prepared) ==
    LET heuristic == [predictions |-> _fallback_prediction(prepared.df),
                      fallback |-> TRUE, raised |-> None, state |-> st]
    IN  IF st.is_trained
        THEN LET fromModel == predict(st, prepared.X)
             IN  IF fromModel.raised = "NotFittedError"
                 THEN [heuristic EXCEPT !.state = fromModel.state]
                 ELSE [predictions |-> fromModel.ret, fallback |-> FALSE,
                       raised |-> fromModel.raised, state |-> fromModel.state]
        ELSE heuristic

\* a predictor that marks the trainer untrained whenever it falls back
predict_placements_Untrains(st, teams, today) ==
    LET features == extract_features(teams, today)
        prepared == prepare_features_fit(features)
        raw == RawPredictions(st, prepared)
    IN  IF raw.raised # None
        THEN [results |-> <<>>, predictions |-> <<>>, fallback |-> raw.fallback,
              raised |-> raw.raised, X |-> prepared.X, state |-> raw.state]
        ELSE [results |-> _adjust_placements(
                             SortResults(BuildResults(teams, features, raw.predictions))),
              predictions |-> raw.predictions,
              fallback |-> raw.fallback,
              raised |-> None,
              X |-> prepared.X,
              state |-> [raw.state EXCEPT !.is_trained = ~raw.fallback]]

\* the results, the raw predictions behind them, the matrix X_processed that
\* was prepared for the model, and the trainer as the call leaves it
predict_placements(st, teams, today) ==
    LET features == extract_features(teams, today)
        prepared == prepare_features_fit(features)
        raw == RawPredictions(st, prepared)
    IN  IF raw.raised # None
        THEN [results |-> <<>>, predictions |-> <<>>, fallback |-> raw.fallback,
              raised |-> raw.raised, X |-> prepared.X, state |-> raw.state]
        ELSE [results |-> _adjust_placements(
                             SortResults(BuildResults(teams, features, raw.predictions))),
              predictions |-> raw.predictions,
              fallback |-> raw.fallback,
              raised |-> None,
              X |-> prepared.X,
              state |-> raw.state]

(***************************************************************************)
(* PredictionService (src/services/prediction_service.py).  The service    *)
(* owns one FeatureEngineer and one ModelTrainer.  historical stands for   *)
(* the teams of the historical tournaments that carry an actual placement, *)
(* in the order the loop gathers them; mae and failure are what the        *)
(* library does with the training data, as in train_models.                *)
(***************************************************************************)
historical_min_rows == 3

synthetic_samples == 50

\* config.get('model', {}).get('use_historical_data', True)
use_historical_data == TRUE

ServiceState == [engineer |-> EngineerState, trainer |-> TrainerState]

train_with_historical_data(svc, historical, today, outcome) ==
    LET all_features == extract_features(historical, today)
    IN  IF Len(all_features) < historical_min_rows
        THEN [svc |-> svc, trained |-> FALSE]
        ELSE LET prepared == prepare_features(svc.engineer, all_features, TRUE)
                 trained == train_models(svc.trainer, Len(all_features),
                                         outcome.mae, outcome.failure)
             IN  [svc |-> [engineer |-> prepared.state, trainer |-> trained.state],
                  trained |-> trained.state.is_trained]

\* the synthetic matrix is generated directly and never passes an engineer
_train_with_synthetic_data(svc, outcome) ==
    [svc EXCEPT !.trainer = train_models(svc.trainer, synthetic_samples,
                                         outcome.mae, outcome.failure).state]

\* what the library may do with one training set: the first or the last
\* candidate comes out best, or the first candidate raises
TrainingOutcomes ==
    {[mae |-> [k \in ModelNames |-> IF k = best THEN 0 ELSE MaxMae],
      failure |-> NoFailure] : best \in {ModelOrder[1], ModelOrder[Len(ModelOrder)]}}
        \cup {[mae |-> [k \in ModelNames |-> 0],
               failure |-> [at |-> 1, phase |-> "cv"]]}

\* np.random.seed(42): the synthetic set is always the same one
SyntheticOutcomes ==
    {[mae |-> [k \in ModelNames |-> 0], failure |-> NoFailure],
     [mae |-> [k \in ModelNames |-> 0], failure |-> [at |-> 2, phase |-> "cv"]]}

\* batches of one team repeated, or of the pool in its order
ServiceBases ==
    {<<i>> : i \in 1..Len(TeamPool)} \cup {[i \in 1..Len(TeamPool) |-> i] \o <<>>}

HistoricalBatches ==
    {<<>>} \cup {Batch(base, n) : base \in ServiceBases,
                                  n \in historical_min_rows..MaxHistorical}

InferenceBatches ==
    {Batch(base, n) : base \in ServiceBases, n \in 1..MaxInference}

(***************************************************************************)
(* ModelValidator (src/validation/validator.py).  y_pred, y_true and       *)
(* valid_teams are parallel lists; root_mean_squared_error, the square     *)
(* root of mean_squared_error, is not a rational and is left out of the    *)
(* metrics record.                                                         *)
(***************************************************************************)
NoMatchingTeams == [error |-> "No matching teams found for validation"]

\* the indices, in list order, of the predictions that pass the filter
ValidIndices(predictions, actual_placements) ==
    LET InActual(i) == predictions[i].team \in DOMAIN actual_placements
    IN  SelectSeq([i \in 1..Len(predictions) |-> i] \o <<>>, InActual)

AbsError(y_true, y_pred) ==
    [j \in 1..Len(y_true) |-> Abs(y_true[j] - y_pred[j])] \o <<>>

\* np.mean of a boolean array
BoolMean(flags) == Rat(Count(flags), Len(flags))

_accuracy_within_range_Strict(y_true, y_pred, range_size) ==
    BoolMean([j \in 1..Len(y_true) |-> AbsError(y_true, y_pred)[j] < range_size])

_accuracy_within_range(y_true, y_pred, range_size) ==
    BoolMean([j \in 1..Len(y_true) |-> AbsError(y_true, y_pred)[j] <= range_size])

_top_n_accuracy(y_true, y_pred, n) ==
    LET correct == Count([j \in 1..Len(y_true) |-> y_pred[j] <= n /\ y_true[j] <= n])
        total_top_n == Count([j \in 1..Len(y_true) |-> y_true[j] <= n])
    IN  IF total_top_n > 0 THEN Rat(correct, total_top_n) ELSE RInt(0)

_perfect_predictions(y_true, y_pred) ==
    BoolMean([j \in 1..Len(y_true) |-> y_true[j] = y_pred[j]])

\* list.sort(key=lambda x: x[1], reverse=True) is stable: a pair goes behind
\* every pair whose magnitude is not smaller
RECURSIVE InsertByMagnitude(_, _)
InsertByMagnitude(sorted, pair) ==
    IF sorted = <<>> THEN <<pair>>
    ELSE IF sorted[Len(sorted)][2] >= pair[2] THEN Append(sorted, pair)
    ELSE Append(InsertByMagnitude(SubSeq(sorted, 1, Len(sorted) - 1), pair),
                sorted[Len(sorted)])

RECURSIVE SortByMagnitude(_)
SortByMagnitude(pairs) ==
    IF pairs = <<>> THEN <<>>
    ELSE InsertByMagnitude(SortByMagnitude(SubSeq(pairs, 1, Len(pairs) - 1)),
                           pairs[Len(pairs)])

TopThree_Untruncated(pairs) == pairs

\* the slice [:3]
TopThree(pairs) == SubSeq(pairs, 1, IF Len(pairs) < 3 THEN Len(pairs) ELSE 3)

_detailed_analysis(y_true, y_pred, teams) ==
    LET prediction_details ==
            [i \in 1..Len(teams) |->
                LET error == Abs(y_pred[i] - y_true[i])
                IN  [team |-> teams[i], predicted |-> y_pred[i], actual |-> y_true[i],
                     error |-> error, within_1 |-> error <= 1,
                     within_2 |-> error <= 2, within_3 |-> error <= 3]] \o <<>>
        IsSurprise(detail) == detail.actual < detail.predicted
        IsDisappointment(detail) == detail.actual > detail.predicted
        SurprisePair(detail) == <<detail.team, detail.predicted - detail.actual>>
        DisappointmentPair(detail) == <<detail.team, detail.actual - detail.predicted>>
        surprise_details == SelectSeq(prediction_details, IsSurprise)
        disappointment_details == SelectSeq(prediction_details, IsDisappointment)
        surprises == [k \in 1..Len(surprise_details) |->
                         SurprisePair(surprise_details[k])] \o <<>>
        disappointments == [k \in 1..Len(disappointment_details) |->
                               DisappointmentPair(disappointment_details[k])] \o <<>>
    IN  [prediction_details |-> prediction_details,
         biggest_surprises |-> TopThree(SortByMagnitude(surprises)),
         biggest_disappointments |-> TopThree(SortByMagnitude(disappointments))]

validate_predictions_CountsAll(predictions, actual_placements) ==
    LET valid == ValidIndices(predictions, actual_placements)
        valid_predictions == [j \in 1..Len(valid) |->
                                 predictions[valid[j]].predicted_placement] \o <<>>
        valid_actuals == [j \in 1..Len(valid) |->
                             actual_placements[predictions[valid[j]].team]] \o <<>>
        valid_teams == [j \in 1..Len(valid) |-> predictions[valid[j]].team] \o <<>>
        errors == AbsError(valid_actuals, valid_predictions)
        analysis == _detailed_analysis(valid_actuals, valid_predictions, valid_teams)
    IN  IF valid_predictions = <<>>
        THEN NoMatchingTeams
        ELSE [num_teams_validated |-> Len(predictions),
              mean_absolute_error |->
                  RDiv(RSum([j \in 1..Len(errors) |-> RInt(errors[j])]),
                       RInt(Len(errors))),
              mean_squared_error |->
                  RDiv(RSum([j \in 1..Len(errors) |-> RInt(errors[j] * errors[j])]),
                       RInt(Len(errors))),
              accuracy_within_1 |-> _accuracy_within_range(valid_actuals, valid_predictions, 1),
              accuracy_within_2 |-> _accuracy_within_range(valid_actuals, valid_predictions, 2),
              accuracy_within_3 |-> _accuracy_within_range(valid_actuals, valid_predictions, 3),
              top_3_accuracy |-> _top_n_accuracy(valid_actuals, valid_predictions, 3),
              top_5_accuracy |-> _top_n_accuracy(valid_actuals, valid_predictions, 5),
              perfect_predictions |-> _perfect_predictions(valid_actuals, valid_predictions),
              prediction_details |-> analysis.prediction_details,
              biggest_surprises |-> analysis.biggest_surprises,
              biggest_disappointments |-> analysis.biggest_disappointments]

validate_predictions(predictions, actual_placements) ==
    LET valid == ValidIndices(predictions, actual_placements)
        valid_predictions == [j \in 1..Len(valid) |->
                                 predictions[valid[j]].predicted_placement] \o <<>>
        valid_actuals == [j \in 1..Len(valid) |->
                             actual_placements[predictions[valid[j]].team]] \o <<>>
        valid_teams == [j \in 1..Len(valid) |-> predictions[valid[j]].team] \o <<>>
        errors == AbsError(valid_actuals, valid_predictions)
        analysis == _detailed_analysis(valid_actuals, valid_predictions, valid_teams)
    IN  IF valid_predictions = <<>>
        THEN NoMatchingTeams
        ELSE [num_teams_validated |-> Len(valid_predictions),
              mean_absolute_error |->
                  RDiv(RSum([j \in 1..Len(errors) |-> RInt(errors[j])]),
                       RInt(Len(errors))),
              mean_squared_error |->
                  RDiv(RSum([j \in 1..Len(errors) |-> RInt(errors[j] * errors[j])]),
                       RInt(Len(errors))),
              accuracy_within_1 |-> _accuracy_within_range(valid_actuals, valid_predictions, 1),
              accuracy_within_2 |-> _accuracy_within_range(valid_actuals, valid_predictions, 2),
              accuracy_within_3 |-> _accuracy_within_range(valid_actuals, valid_predictions, 3),
              top_3_accuracy |-> _top_n_accuracy(valid_actuals, valid_predictions, 3),
              top_5_accuracy |-> _top_n_accuracy(valid_actuals, valid_predictions, 5),
              perfect_predictions |-> _perfect_predictions(valid_actuals, valid_predictions),
              prediction_details |-> analysis.prediction_details,
              biggest_surprises |-> analysis.biggest_surprises,
              biggest_disappointments |-> analysis.biggest_disappointments]

(***************************************************************************)
(* Inputs of the validator: the teams of a tournament are named in the     *)
(* order of their actual placement; a list of predictions names the first  *)
(* n of them, in that order or reversed, with any predicted placements;    *)
(* the actual placements are known for a run of them, for none of them or  *)
(* for all, and for one team that was not predicted.                       *)
(***************************************************************************)
ValidatorTeams ==
    <<"G2 Gozen", "MIBR GC", "Ninetails", "Team Liquid Brazil",
      "Shopify Rebellion Gold", "KRU BLAZE", "Xipto Esports", "FlyQuest RED">>

PredictionList(n, reversed, placements) ==
    [i \in 1..n |->
        [team |-> ValidatorTeams[IF reversed THEN n + 1 - i ELSE i],
         predicted_placement |-> placements[i]]] \o <<>>

KnownChoices(n) == {{}} \cup {lo..hi : lo \in 1..2, hi \in (n - 1)..n}

ActualPlacements(known, n) ==
    [name \in {ValidatorTeams[k] : k \in known \cup {n + 1}} |->
        CHOOSE k \in 1..Len(ValidatorTeams) : ValidatorTeams[k] = name]

(***************************************************************************)
(* Tournaments (src/domain/tournament.py).  A team descriptor is a dict    *)
(* with id and name and, when the placement is known, actual_placement;    *)
(* the configuration maps tournament keys to a name and a list of team     *)
(* descriptors.                                                            *)
(***************************************************************************)
TournamentConfig(name, teams, is_historical) ==
    [name |-> name, teams |-> teams, is_historical |-> is_historical]

\* is_historical as _load_tournaments derives it
IsHistoricalData(tournament_data) ==
    IF tournament_data.teams # <<>>
    THEN LET first_team == tournament_data.teams[1]
         IN  "actual_placement" \in DOMAIN first_team
    ELSE FALSE

_load_tournaments(config) ==
    [tournament_key \in DOMAIN config |->
        TournamentConfig(config[tournament_key].name,
                         config[tournament_key].teams,
                         IsHistoricalData(config[tournament_key]))]

\* team id -> actual placement, for the descriptors that carry one
get_actual_placements(tournament) ==
    LET placed == {k \in 1..Len(tournament.teams) :
                      "actual_placement" \in DOMAIN tournament.teams[k]}
    IN  [id \in {tournament.teams[k].id : k \in placed} |->
            tournament.teams[CHOOSE k \in placed :
                                 /\ tournament.teams[k].id = id
                                 /\ \A h \in placed :
                                       tournament.teams[h].id = id => h <= k
                            ].actual_placement]

\* the tournaments of the manager that are, or are not, flagged historical
get_historical_tournaments(ts) == {ts[key] : key \in {k \in DOMAIN ts : ts[k].is_historical}}

get_future_tournaments(ts) == {ts[key] : key \in {k \in DOMAIN ts : ~ts[k].is_historical}}

TournamentKeys == {"gc_championship_2024", "gc_championship_2025"}

\* the k-th descriptor of a configured tournament
TeamDescriptor(k, placed) ==
    IF placed
    THEN [id |-> TeamPool[((k - 1) % Len(TeamPool)) + 1].id,
          name |-> TeamPool[((k - 1) % Len(TeamPool)) + 1].name,
          actual_placement |-> k]
    ELSE [id |-> TeamPool[((k - 1) % Len(TeamPool)) + 1].id,
          name |-> TeamPool[((k - 1) % Len(TeamPool)) + 1].name]

TournamentData ==
    UNION {{[name |-> "Game Changers Championship",
             teams |-> [k \in 1..n |-> TeamDescriptor(k, placed[k])] \o <<>>] :
              placed \in [1..n -> BOOLEAN]} : n \in 0..MaxTournamentTeams}

EmptyConfig == [tournament_key \in {} |-> TournamentConfig("", <<>>, FALSE)]

Configs == UNION {[keys -> TournamentData] : keys \in SUBSET TournamentKeys}

(***************************************************************************)
(* The state machine.  A caller makes one call at a time (section 5 of the *)
(* design: single-threaded, synchronous); call holds the call's inputs and *)
(* outcome until the caller drops them.  \E out \in {f(...)} binds the     *)
(* value an operation returns, computed once.                              *)
(***************************************************************************)
Idle == [op |-> "idle"]

NoObservation == [seen |-> FALSE, teams |-> <<>>, ret |-> <<>>]

Init ==
    /\ now = StartDay
    /\ models = NewTrainer.models
    /\ best_model = NewTrainer.best_model
    /\ best_model_name = NewTrainer.best_model_name
    /\ is_trained = NewTrainer.is_trained
    /\ is_fitted = NewEngineer.is_fitted
    /\ scaler = NewEngineer.scaler
    /\ tournaments = _load_tournaments(EmptyConfig)
    /\ disk = NoFile
    /\ call = Idle
    /\ first = NoObservation

SetTrainer(st) ==
    /\ models' = st.models
    /\ best_model' = st.best_model
    /\ best_model_name' = st.best_model_name
    /\ is_trained' = st.is_trained

\* time passes between two calls
Tick ==
    /\ call.op = "idle"
    /\ now + DayStep <= StartDay + MaxTicks * DayStep
    /\ now' = now + DayStep
    /\ UNCHANGED <<trainerVars, disk, call, first, engineerVars, tournaments>>

\* the caller drops the outcome of its last call
Discard ==
    /\ call.op # "idle"
    /\ call' = Idle
    /\ UNCHANGED <<now, trainerVars, disk, first, engineerVars, tournaments>>

ExtractBatches == {b \in Batches : Len(b) <= MaxExtract}

ExtractFeatures(teams) ==
    /\ call.op = "idle"
    /\ \E ret \in {extract_features(teams, now)} :
           /\ call' = [op |-> "extract_features", teams |-> teams, ret |-> ret]
           /\ first' = IF first.seen THEN first
                       ELSE [seen |-> TRUE, teams |-> teams, ret |-> ret]
    /\ UNCHANGED <<now, trainerVars, disk, engineerVars, tournaments>>

\* one team put through the processor: its stability score and its features
ProcessTeam(team) ==
    /\ call.op = "idle"
    /\ call' = [op |-> "process_team", team |-> team,
                stability |-> calculate_roster_stability(team, now),
                features |-> extract_features(<<team>>, now)]
    /\ UNCHANGED <<now, trainerVars, disk, first, engineerVars, tournaments>>

\* TournamentManager(config): the manager of a service built from config
LoadTournaments(config) ==
    /\ call.op = "idle"
    /\ tournaments' = _load_tournaments(config)
    /\ call' = [op |-> "load_tournaments", config |-> config]
    /\ UNCHANGED <<now, trainerVars, engineerVars, disk, first>>

PrepareFeatures(teams, fit_scaler) ==
    /\ call.op = "idle"
    /\ \E features \in {extract_features(teams, now)} :
       \E out \in {prepare_features(EngineerState, features, fit_scaler)} :
           /\ is_fitted' = out.state.is_fitted
           /\ scaler' = out.state.scaler
           /\ call' = [op |-> "prepare_features", features |-> features,
                       fit_scaler |-> fit_scaler, fitted_before |-> is_fitted,
                       df |-> out.df, X |-> out.X]
    /\ UNCHANGED <<now, trainerVars, disk, first, tournaments>>

CreateCompositeFeatures(df) ==
    /\ call.op = "idle"
    /\ call' = [op |-> "create_composite_features", df |-> df,
                ret |-> create_composite_features(df)]
    /\ UNCHANGED <<now, trainerVars, engineerVars, disk, first, tournaments>>

ValidatePredictions(predictions, actual_placements) ==
    /\ call.op = "idle"
    /\ call' = [op |-> "validate_predictions", predictions |-> predictions,
                actual_placements |-> actual_placements,
                ret |-> validate_predictions(predictions, actual_placements)]
    /\ UNCHANGED <<now, trainerVars, disk, first, engineerVars, tournaments>>

TrainModels(n, mae, failure) ==
    /\ call.op = "idle"
    /\ \E out \in {train_models(TrainerState, n, mae, failure)} :
           /\ SetTrainer(out.state)
           /\ call' = [op |-> "train_models", rows |-> n,
                       failed |-> (n >= train_min_rows /\ failure.at > 0),
                       ret_none |-> out.ret_none, ret |-> out.ret,
                       raised |-> out.raised]
    /\ UNCHANGED <<now, disk, first, engineerVars, tournaments>>

Predict(teams) ==
    /\ call.op = "idle"
    /\ \E X \in {prepare_features_fit(extract_features(teams, now)).X} :
       \E out \in {predict(TrainerState, X)} :
           /\ SetTrainer(out.state)
           /\ call' = [op |-> "predict", X |-> X,
                       ret_none |-> out.ret_none, ret |-> out.ret,
                       raised |-> out.raised]
    /\ UNCHANGED <<now, disk, first, engineerVars, tournaments>>

HyperparameterTuning(n, grid_fails) ==
    /\ call.op = "idle"
    /\ \E out \in {hyperparameter_tuning(TrainerState, n, grid_fails)} :
           /\ SetTrainer(out.state)
           /\ call' = [op |-> "hyperparameter_tuning", rows |-> n,
                       failed |-> grid_fails,
                       ret_none |-> out.ret_none, ret |-> out.ret,
                       raised |-> out.raised]
    /\ UNCHANGED <<now, disk, first, engineerVars, tournaments>>

SaveModel ==
    /\ call.op = "idle"
    /\ disk' = save_model(TrainerState, disk)
    /\ call' = [op |-> "save_model"]
    /\ UNCHANGED <<now, trainerVars, first, engineerVars, tournaments>>

LoadModel ==
    /\ call.op = "idle"
    /\ SetTrainer(load_model(TrainerState, disk))
    /\ call' = [op |-> "load_model"]
    /\ UNCHANGED <<now, disk, first, engineerVars, tournaments>>

\* another program leaves a file at the model path
ForeignFile(blob) ==
    /\ call.op = "idle"
    /\ disk # blob
    /\ disk' = blob
    /\ UNCHANGED <<now, trainerVars, call, first, engineerVars, tournaments>>

PredictPlacements(teams) ==
    /\ call.op = "idle"
    /\ \E out \in {predict_placements(TrainerState, teams, now)} :
           /\ SetTrainer(out.state)
           /\ call' = [op |-> "predict_placements", teams |-> teams,
                       results |-> out.results, predictions |-> out.predictions,
                       fallback |-> out.fallback, raised |-> out.raised]
    /\ UNCHANGED <<now, disk, first, engineerVars, tournaments>>

\* what a service call leaves behind: prepared is what the service's own
\* engineer returned, of which only the shape is used; out is what the new
\* PlacementPredictor did with the teams, preparing them again itself
ServiceCall(op, historical, teams, trained, prepared, out) ==
    /\ SetTrainer(out.state)
    /\ is_fitted' = prepared.state.is_fitted
    /\ scaler' = prepared.state.scaler
    /\ call' = [op |-> op, historical |-> historical, teams |-> teams,
                trained |-> trained, X_processed |-> prepared.X,
                evaluated |-> out.X, predictions |-> out.results,
                fallback |-> out.fallback, raised |-> out.raised]
    /\ UNCHANGED <<now, disk, first, tournaments>>

\* predict_tournament for a tournament whose teams are teams
PredictTournament(historical, teams, outcome, synthetic) ==
    /\ call.op = "idle"
    /\ \E h \in {IF use_historical_data
                  THEN train_with_historical_data(ServiceState, historical, now,
                                                  outcome)
                  ELSE [svc |-> ServiceState, trained |-> FALSE]} :
       \E ready \in {IF h.trained THEN h.svc
                     ELSE _train_with_synthetic_data(h.svc, synthetic)} :
       \E prepared \in {prepare_features(ready.engineer,
                                         extract_features(teams, now), FALSE)} :
       \E out \in {predict_placements(ready.trainer, teams, now)} :
           ServiceCall("predict_tournament", historical, teams, h.trained,
                       prepared, out)

\* predict_custom_teams for the teams the ids resolve to
PredictCustomTeams(historical, teams, outcome, synthetic) ==
    /\ call.op = "idle"
    /\ \E h \in {IF use_historical_data
                  THEN train_with_historical_data(ServiceState, historical, now,
                                                  outcome)
                  ELSE [svc |-> _train_with_synthetic_data(ServiceState, synthetic),
                        trained |-> FALSE]} :
       \E prepared \in {prepare_features(h.svc.engineer,
                                         extract_features(teams, now), FALSE)} :
       \E out \in {predict_placements(h.svc.trainer, teams, now)} :
           ServiceCall("predict_custom_teams", historical, teams, h.trained,
                       prepared, out)

(***************************************************************************)
(* Specifications.                                                         *)
(***************************************************************************)
MaeVectors == [ModelNames -> 0..MaxMae]

\* feature extraction under a running clock
NextExtract ==
    \/ Tick
    \/ /\ call.op = "idle"
       /\ \E teams \in ExtractBatches : ExtractFeatures(teams)
    \/ Discard

SpecExtract == Init /\ [][NextExtract]_vars

\* the processor on generated teams under a running clock
NextProcessor ==
    \/ Tick
    \/ /\ call.op = "idle"
       /\ \E team \in GeneratedTeams : ProcessTeam(team)
    \/ Discard

SpecProcessor == Init /\ [][NextProcessor]_vars

\* the processor on teams with long win/loss histories
NextForm ==
    \/ Tick
    \/ /\ call.op = "idle"
       /\ \E team \in FormTeams : ProcessTeam(team)
    \/ Discard

SpecForm == Init /\ [][NextForm]_vars

\* one FeatureEngineer preparing batch after batch under a running clock
NextEngineer ==
    \/ Tick
    \/ /\ call.op = "idle"
       /\ \E teams \in ExtractBatches, fit_scaler \in BOOLEAN :
             PrepareFeatures(teams, fit_scaler)
    \/ Discard

SpecEngineer == Init /\ [][NextEngineer]_vars

\* composite features of any row
NextComposite ==
    \/ /\ call.op = "idle"
       /\ \E row \in CompositeInputs : CreateCompositeFeatures(<<row>>)
    \/ Discard

SpecComposite == Init /\ [][NextComposite]_vars

\* tournament managers built from any configuration
NextTournament ==
    \/ /\ call.op = "idle"
       /\ \E config \in Configs : LoadTournaments(config)
    \/ Discard

SpecTournament == Init /\ [][NextTournament]_vars

\* the validator on any list of predictions
NextValidator ==
    \/ /\ call.op = "idle"
       /\ \E n \in 0..MaxValidated :
            \E reversed \in BOOLEAN, placements \in [1..n -> 1..MaxPlacement],
               known \in KnownChoices(n) :
                 ValidatePredictions(PredictionList(n, reversed, placements),
                                     ActualPlacements(known, n))
    \/ Discard

SpecValidator == Init /\ [][NextValidator]_vars

\* the trainer's methods in any order
NextTrainer ==
    \/ /\ call.op = "idle"
       /\ \E n \in 0..MaxRows, mae \in MaeVectors, failure \in Failures :
             TrainModels(n, mae, failure)
    \/ /\ call.op = "idle"
       /\ \E teams \in ExtractBatches : Predict(teams)
    \/ /\ call.op = "idle"
       /\ \E n \in 0..MaxRows, grid_fails \in BOOLEAN :
             HyperparameterTuning(n, grid_fails)
    \/ Discard

SpecTrainer == Init /\ [][NextTrainer]_vars

\* training matrices too short to train on, and long enough to tune on
PredictorRows == {train_min_rows - 1, tune_min_rows}

\* what save_model of an earlier process can have left at the model path
SavedBlobs ==
    {Blob(ObjectRef(Estimator(name, tune_min_rows, tuned)), name, TRUE) :
        name \in ModelNames, tuned \in BOOLEAN}

InitLifecycle ==
    /\ now = StartDay
    /\ models = NewTrainer.models
    /\ best_model = NewTrainer.best_model
    /\ best_model_name = NewTrainer.best_model_name
    /\ is_trained = NewTrainer.is_trained
    /\ is_fitted = NewEngineer.is_fitted
    /\ scaler = NewEngineer.scaler
    /\ tournaments = _load_tournaments(EmptyConfig)
    /\ disk \in {NoFile} \cup SavedBlobs
    /\ call = Idle
    /\ first = NoObservation

\* a trainer trained, retrained, tuned, saved, loaded and used by a predictor
NextLifecycle ==
    \/ /\ call.op = "idle"
       /\ \E n \in PredictorRows, mae \in MaeVectors, failure \in Failures :
             TrainModels(n, mae, failure)
    \/ /\ call.op = "idle"
       /\ \E teams \in ExtractBatches : Predict(teams)
    \/ \E n \in PredictorRows, grid_fails \in BOOLEAN : HyperparameterTuning(n, grid_fails)
    \/ SaveModel
    \/ LoadModel
    \/ /\ call.op = "idle"
       /\ \E teams \in ExtractBatches : PredictPlacements(teams)
    \/ Discard

SpecLifecycle == InitLifecycle /\ [][NextLifecycle]_vars

\* the predictor on a trainer that is trained, tuned, retrained or loaded
NextPredictor ==
    \/ /\ call.op = "idle"
       /\ \E n \in PredictorRows, mae \in MaeVectors, failure \in Failures :
             TrainModels(n, mae, failure)
    \/ \E grid_fails \in BOOLEAN : HyperparameterTuning(tune_min_rows, grid_fails)
    \/ \E blob \in ForeignBlobs : ForeignFile(blob)
    \/ LoadModel
    \/ /\ call.op = "idle"
       /\ \E teams \in Batches : PredictPlacements(teams)
    \/ Discard

SpecPredictor == Init /\ [][NextPredictor]_vars

\* one service asked for prediction after prediction
NextService ==
    \/ /\ call.op = "idle"
       /\ \E historical \in HistoricalBatches, teams \in InferenceBatches,
             outcome \in TrainingOutcomes, synthetic \in SyntheticOutcomes :
             PredictTournament(historical, teams, outcome, synthetic)
    \/ /\ call.op = "idle"
       /\ \E historical \in HistoricalBatches, teams \in InferenceBatches,
             outcome \in TrainingOutcomes, synthetic \in SyntheticOutcomes :
             PredictCustomTeams(historical, teams, outcome, synthetic)
    \/ Discard

SpecService == Init /\ [][NextService]_vars

(***************************************************************************)
(* Properties.                                                             *)
(***************************************************************************)
Placed == call.op = "predict_placements" /\ call.raised = None

\* the raw score of the team behind result record r
RawOf(r) == call.predictions[r.input_index]

PlacementsOf(results) == {results[k].predicted_placement : k \in 1..Len(results)}

\* C1  Rank density: the placements predict_placements returns for a batch
\* of N teams are exactly 1..N, each taken by exactly one result.
C1_RankDensity ==
    call.op = "predict_placements" =>
        /\ call.raised = None
        /\ Len(call.results) = Len(call.teams)
        /\ \A p \in 1..Len(call.teams) :
              Cardinality({k \in 1..Len(call.results) :
                              call.results[k].predicted_placement = p}) = 1
        /\ PlacementsOf(call.results) = 1..Len(call.teams)

\* more than 8 teams, scored by the trained model, with a raw score above 8,
\* one below 1 and two that round to the same integer
C1_Witness ==
    /\ Placed /\ ~call.fallback
    /\ Len(call.teams) > 8
    /\ \E i, j \in 1..Len(call.teams) :
          /\ PyRound(call.predictions[i]) > 8
          /\ PyRound(call.predictions[j]) < 1
    /\ \E i, j \in 1..Len(call.teams) :
          i # j /\ PyRound(call.predictions[i]) = PyRound(call.predictions[j])

\* C2  Ordering by raw score: a team with a strictly lower raw score has a
\* strictly lower final placement, and teams with equal raw scores keep
\* their input order.
C2_OrderedByRawScore ==
    Placed =>
        \A a, b \in 1..Len(call.results) :
            LET ra == call.results[a]
                rb == call.results[b]
            IN  /\ RLess(RawOf(ra).q, RawOf(rb).q)
                      => ra.predicted_placement < rb.predicted_placement
                /\ (RawOf(ra).q = RawOf(rb).q /\ ra.input_index < rb.input_index)
                      => ra.predicted_placement < rb.predicted_placement

\* C3  Confidence bounds: every confidence score lies in [0.3, 0.9] and is
\* |raw - 4.5| / 3.5 of the team's raw score, clamped to that interval.
ClampedConfidence(raw) ==
    LET c == RDiv(RAbs(RSub(raw.q, Rat(9, 2))), Rat(7, 2))
    IN  IF RLess(c, Rat(3, 10)) THEN Rat(3, 10)
        ELSE IF RLess(Rat(9, 10), c) THEN Rat(9, 10) ELSE c

C3_ConfidenceBounds ==
    Placed =>
        \A k \in 1..Len(call.results) :
            LET c == call.results[k].confidence_score
            IN  /\ RLeq(Rat(3, 10), c) /\ RLeq(c, Rat(9, 10))
                /\ c = ClampedConfidence(RawOf(call.results[k]))

\* one batch with a confidence at each clamp and one strictly between, where
\* a team's final placement differs from its rounded raw score
C3_Witness ==
    /\ Placed
    /\ \E k \in 1..Len(call.results) : call.results[k].confidence_score = Rat(3, 10)
    /\ \E k \in 1..Len(call.results) :
          /\ call.results[k].confidence_score = Rat(9, 10)
          /\ RLess(RInt(8), RawOf(call.results[k]).q)
    /\ \E k \in 1..Len(call.results) :
          /\ RLess(Rat(3, 10), call.results[k].confidence_score)
          /\ RLess(call.results[k].confidence_score, Rat(9, 10))
          /\ call.results[k].predicted_placement # PyRound(RawOf(call.results[k]))

\* C4  Fallback on an unusable trainer: when is_trained is false, or it is
\* true with best_model None, predict_placements raises nothing, scores the
\* teams with the fallback heuristic and returns a dense 1..N ranking.
TrainerUnusable == ~is_trained \/ best_model.kind = "none"

C4_FallbackOnUntrained ==
    (call.op = "predict_placements" /\ TrainerUnusable) =>
        /\ call.raised = None
        /\ call.fallback
        /\ call.predictions = _fallback_prediction(extract_features(call.teams, now))
        /\ PlacementsOf(call.results) = 1..Len(call.teams)
        /\ Len(call.results) = Len(call.teams)

\* the trainer says it is trained but holds no model
C4_Witness ==
    /\ call.op = "predict_placements"
    /\ is_trained /\ best_model.kind = "none"
    /\ call.fallback
    /\ Len(call.teams) > 1

\* C5  Training gating: train_models raises nothing; with fewer than 3 rows,
\* or when cross-validation or fitting of a candidate fails, it returns None
\* and is_trained is false.
C5_TrainingGating ==
    call.op = "train_models" =>
        /\ call.raised = None
        /\ (call.rows < 3 \/ call.failed) => (call.ret_none /\ ~is_trained)

\* a retraining of a trained trainer fails at a candidate
C5_Witness ==
    /\ call.op = "train_models"
    /\ call.failed
    /\ best_model.kind # "none"
    /\ ~is_trained

\* C6  Successful training: the trainer always holds the three candidates;
\* a training on 3 or more rows without failure returns a report with one
\* entry per candidate, sets is_trained, and best_model is the candidate
\* object stored under best_model_name.
C6_SuccessfulTraining ==
    /\ DOMAIN models = ModelNames
    /\ Cardinality(DOMAIN models) = 3
    /\ (call.op = "train_models" /\ call.rows >= 3 /\ ~call.failed) =>
          /\ ~call.ret_none
          /\ DOMAIN call.ret = ModelNames
          /\ is_trained
          /\ best_model.kind # "none"
          /\ best_model_name \in ModelNames
          /\ best_model = CandidateRef(best_model_name)
          /\ call.ret[best_model_name].model = best_model
          /\ Deref(TrainerState, best_model) = models[best_model_name]

C6_Witness ==
    /\ call.op = "train_models" /\ call.rows >= 3 /\ ~call.failed
    /\ best_model_name = "ridge"
    /\ models["ridge"].fit = call.rows

\* C7  Best-model selection: after a successful training best_model_name
\* has the minimal mean MAE of the report, and no candidate earlier in the
\* order random_forest, gradient_boosting, ridge has the same MAE.
C7_BestModelSelection ==
    (call.op = "train_models" /\ ~call.ret_none) =>
        \A k \in ModelNames :
            /\ call.ret[best_model_name].cv_mae_mean <= call.ret[k].cv_mae_mean
            /\ call.ret[k].cv_mae_mean = call.ret[best_model_name].cv_mae_mean
                  => ModelIndex(best_model_name) <= ModelIndex(k)

\* the minimum is shared by the second and the third candidate only
C7_Witness ==
    /\ call.op = "train_models" /\ ~call.ret_none
    /\ call.ret["gradient_boosting"].cv_mae_mean = call.ret["ridge"].cv_mae_mean
    /\ call.ret["random_forest"].cv_mae_mean > call.ret["ridge"].cv_mae_mean
    /\ best_model_name = "gradient_boosting"

\* C8  Predict gating: predict changes no trainer state; it raises
\* NotFittedError when is_trained is false or best_model is None, and
\* otherwise returns what the estimator best_model refers to predicts for X.
C8_PredictGating ==
    [][call'.op = "predict" =>
          /\ UNCHANGED trainerVars
          /\ IF ~is_trained \/ best_model.kind = "none"
             THEN call'.raised = "NotFittedError" /\ call'.ret_none
             ELSE /\ call'.raised = None
                  /\ ~call'.ret_none
                  /\ call'.ret = EstimatorPredict(Deref(TrainerState, best_model),
                                                  call'.X)]_vars

\* predict on a trainer whose retraining failed: a model is held, the flag is off
C8_Witness ==
    /\ call.op = "predict"
    /\ call.raised = "NotFittedError"
    /\ best_model.kind # "none"
    /\ ~is_trained

\* C9  Tune gating: hyperparameter_tuning on an untrained trainer, or with
\* fewer than 5 rows, raises nothing and leaves the trainer as it was.
C9_TuneGating ==
    [][(call'.op = "hyperparameter_tuning" /\ (~is_trained \/ call'.rows < 5)) =>
          /\ UNCHANGED trainerVars
          /\ call'.raised = None]_vars

\* tuning a trained trainer with too few rows, the grid search being able to run
C9_Witness ==
    /\ call.op = "hyperparameter_tuning"
    /\ is_trained
    /\ call.rows < 5 /\ call.rows >= 3
    /\ ~call.failed

\* C10  Determinism of feature extraction: extract_features on the teams of
\* the caller's first extraction returns what that first extraction returned.
C10_ExtractDeterministic ==
    (call.op = "extract_features" /\ first.seen /\ call.teams = first.teams) =>
        call.ret = first.ret

(***************************************************************************)
(* C11  Empty-roster defaults: a team without players gets                 *)
(* avg_player_rating = avg_acs = avg_kdr = avg_kast = 0 from feature       *)
(* extraction, and roster_stability = 0 when its formation date is known.  *)
(***************************************************************************)
Processed == call.op = "process_team"

C11_EmptyRosterDefaults ==
    (Processed /\ call.team.players = <<>>) =>
        LET f == call.features[1]
        IN  /\ Len(call.features) = 1
            /\ f.avg_player_rating = RInt(0)
            /\ f.avg_acs = RInt(0)
            /\ f.avg_kdr = RInt(0)
            /\ f.avg_kast = RInt(0)
            /\ call.team.formed_date # <<>> => f.roster_stability = RInt(0)

C11_Witness ==
    /\ Processed
    /\ call.team.players = <<>>
    /\ call.team.formed_date # <<>>
    /\ call.team.recent_matches # <<>>
    /\ call.features[1].avg_acs = RInt(0)
    /\ call.features[1].roster_stability = RInt(0)

(***************************************************************************)
(* C12  Empty-history defaults: a team without recent matches gets         *)
(* win_rate = recent_form = tournament_results = 0.5 and                   *)
(* strength_of_schedule = 0.5 from feature extraction.                     *)
(***************************************************************************)
C12_EmptyHistoryDefaults ==
    (Processed /\ call.team.recent_matches = <<>>) =>
        LET f == call.features[1]
        IN  /\ Len(call.features) = 1
            /\ f.win_rate = Rat(1, 2)
            /\ f.recent_form = Rat(1, 2)
            /\ f.tournament_results = Rat(1, 2)
            /\ f.strength_of_schedule = Rat(1, 2)

C12_Witness ==
    /\ Processed
    /\ call.team.recent_matches = <<>>
    /\ Len(call.team.players) = 5
    /\ call.features[1].tournament_results = Rat(1, 2)
    /\ call.features[1].avg_acs = RInt(210)

(***************************************************************************)
(* C13  Roster stability range: calculate_roster_stability returns a score *)
(* s with 0 <= s <= 1 for every team.                                      *)
(***************************************************************************)
C13_RosterStabilityRange ==
    Processed => /\ RLeq(RInt(0), call.stability)
                 /\ RLeq(call.stability, RInt(1))

(***************************************************************************)
(* C14  Result records: predict_placements on N teams returns N records,   *)
(* one per input team (each team name occurs as often among the results as *)
(* among the inputs), each with team, predicted_placement and              *)
(* confidence_score, and the k-th record of the list has placement k.      *)
(***************************************************************************)
Occurrences(names, name) == Cardinality({k \in 1..Len(names) : names[k] = name})

TeamNames(teams) == [k \in 1..Len(teams) |-> teams[k].name]

ResultNames(results) == [k \in 1..Len(results) |-> results[k].team]

C14_ResultRecords ==
    call.op = "predict_placements" =>
        /\ call.raised = None
        /\ Len(call.results) = Len(call.teams)
        /\ \A k \in 1..Len(call.teams) :
              Occurrences(ResultNames(call.results), call.teams[k].name)
                  = Occurrences(TeamNames(call.teams), call.teams[k].name)
        /\ \A k \in 1..Len(call.results) :
              /\ {"team", "predicted_placement", "confidence_score"}
                     \subseteq DOMAIN call.results[k]
              /\ call.results[k].predicted_placement = k

\* more than eight teams, some of them repeated, ranked by the fallback in
\* an order other than the input order
C14_Witness ==
    /\ Placed /\ call.fallback
    /\ Len(call.teams) > 8
    /\ Len(call.results) = Len(call.teams)
    /\ \E i, j \in 1..Len(call.teams) : i # j /\ call.teams[i].name = call.teams[j].name
    /\ call.results[1].team # call.teams[1].name

(***************************************************************************)
(* C15  Validation matching: validate_predictions considers exactly the    *)
(* predictions whose team is a key of actual_placements; with none it      *)
(* returns the 'no matching teams' error result, otherwise                 *)
(* num_teams_validated is the number of such predictions and               *)
(* prediction_details has one entry per matched team in prediction order.  *)
(***************************************************************************)
Validated == call.op = "validate_predictions"

\* positions of the predictions whose team has an actual placement
Matched == {i \in 1..Len(call.predictions) :
               call.predictions[i].team \in DOMAIN call.actual_placements}

\* the j-th smallest position of Matched
MatchedAt(j) == CHOOSE i \in Matched : Cardinality({h \in Matched : h < i}) = j - 1

C15_ValidationMatching ==
    Validated =>
        IF Matched = {}
        THEN call.ret = NoMatchingTeams
        ELSE /\ "error" \notin DOMAIN call.ret
             /\ call.ret.num_teams_validated = Cardinality(Matched)
             /\ Len(call.ret.prediction_details) = Cardinality(Matched)
             /\ \A j \in 1..Cardinality(Matched) :
                   LET detail == call.ret.prediction_details[j]
                       prediction == call.predictions[MatchedAt(j)]
                   IN  /\ detail.team = prediction.team
                       /\ detail.predicted = prediction.predicted_placement
                       /\ detail.actual = call.actual_placements[prediction.team]

\* some predictions match and some, not the last ones of the list, do not
C15_Witness ==
    /\ Validated
    /\ Cardinality(Matched) >= 2
    /\ \E i \in 1..Len(call.predictions) : i \notin Matched /\ i + 1 \in Matched
    /\ call.ret.num_teams_validated = Cardinality(Matched)
    /\ call.predictions[1].team # ValidatorTeams[1]

(***************************************************************************)
(* C16  Accuracy metrics: on a non-empty matched set, accuracy_within_k    *)
(* (k = 1, 2, 3) is the fraction of matched teams with                     *)
(* |predicted - actual| <= k and perfect_predictions the fraction with     *)
(* predicted = actual; actual [1,2,3,4] against predicted [1,3,2,4] gives  *)
(* accuracy_within_1 = 1 and perfect_predictions = 1/2.                    *)
(***************************************************************************)
PredictedAt(i) == call.predictions[i].predicted_placement

ActualAt(i) == call.actual_placements[call.predictions[i].team]

FractionWithin(k) ==
    Rat(Cardinality({i \in Matched : Abs(PredictedAt(i) - ActualAt(i)) <= k}),
        Cardinality(Matched))

MatchedPredicted == [j \in 1..Cardinality(Matched) |-> PredictedAt(MatchedAt(j))]

MatchedActual == [j \in 1..Cardinality(Matched) |-> ActualAt(MatchedAt(j))]

C16_AccuracyMetrics ==
    (Validated /\ Matched # {}) =>
        /\ call.ret.accuracy_within_1 = FractionWithin(1)
        /\ call.ret.accuracy_within_2 = FractionWithin(2)
        /\ call.ret.accuracy_within_3 = FractionWithin(3)
        /\ call.ret.perfect_predictions = FractionWithin(0)
        /\ (MatchedActual = <<1, 2, 3, 4>> /\ MatchedPredicted = <<1, 3, 2, 4>>) =>
              /\ call.ret.accuracy_within_1 = RInt(1)
              /\ call.ret.perfect_predictions = Rat(1, 2)

C16_Witness ==
    /\ Validated
    /\ Matched = 1..4
    /\ MatchedActual = <<1, 2, 3, 4>>
    /\ MatchedPredicted = <<1, 3, 2, 4>>
    /\ call.ret.accuracy_within_1 = RInt(1)
    /\ call.ret.perfect_predictions = Rat(1, 2)

(***************************************************************************)
(* C17  Surprises and disappointments: biggest_surprises holds only teams  *)
(* with actual < predicted and biggest_disappointments only teams with     *)
(* actual > predicted (the lists are disjoint, an exactly predicted team   *)
(* is in neither); each list is ordered by |predicted - actual|            *)
(* descending with equal magnitudes in prediction order, has at most 3     *)
(* entries, and holds the 3 largest magnitudes of its kind.                *)
(***************************************************************************)
\* sign = 1: how far the team finished above its prediction; sign = -1: below
Gap(i, sign) == sign * (PredictedAt(i) - ActualAt(i))

OfKind(sign) == {i \in Matched : Gap(i, sign) > 0}

\* the position in the predictions of the team of a (team, magnitude) pair
PositionOf(pair) == CHOOSE i \in 1..Len(call.predictions) : call.predictions[i].team = pair[1]

Ranked(list, sign) ==
    /\ Len(list) <= 3
    /\ Len(list) = IF Cardinality(OfKind(sign)) < 3 THEN Cardinality(OfKind(sign)) ELSE 3
    /\ \A k \in 1..Len(list) :
          /\ PositionOf(list[k]) \in OfKind(sign)
          /\ list[k][2] = Gap(PositionOf(list[k]), sign)
    /\ \A k \in 1..(Len(list) - 1) :
          \/ list[k][2] > list[k + 1][2]
          \/ /\ list[k][2] = list[k + 1][2]
             /\ PositionOf(list[k]) < PositionOf(list[k + 1])
    /\ \A i \in OfKind(sign) :
          \/ \E k \in 1..Len(list) : PositionOf(list[k]) = i
          \/ \A k \in 1..Len(list) : Gap(i, sign) <= list[k][2]

TeamsOf(list) == {list[k][1] : k \in 1..Len(list)}

C17_SurprisesAndDisappointments ==
    (Validated /\ Matched # {}) =>
        /\ Ranked(call.ret.biggest_surprises, 1)
        /\ Ranked(call.ret.biggest_disappointments, -1)
        /\ TeamsOf(call.ret.biggest_surprises)
              \cap TeamsOf(call.ret.biggest_disappointments) = {}
        /\ \A i \in Matched :
              PredictedAt(i) = ActualAt(i) =>
                  call.predictions[i].team \notin
                      TeamsOf(call.ret.biggest_surprises)
                          \cup TeamsOf(call.ret.biggest_disappointments)

\* more than three surprises, two of the reported ones with the same
\* magnitude, next to a disappointment
C17_Witness ==
    /\ Validated
    /\ Cardinality(OfKind(1)) > 3
    /\ Len(call.ret.biggest_surprises) = 3
    /\ call.ret.biggest_surprises[1][2] = call.ret.biggest_surprises[2][2]
    /\ Len(call.ret.biggest_disappointments) = 1

(***************************************************************************)
(* C18  Composite feature bound: for every row whose nine primitive        *)
(* features all lie in [0,1], create_composite_features yields             *)
(* team_strength_index in [0,1].                                           *)
(***************************************************************************)
InUnitInterval(x) == RLeq(RInt(0), x) /\ RLeq(x, RInt(1))

Composed == call.op = "create_composite_features"

C18_CompositeBound ==
    Composed =>
        /\ Len(call.ret) = Len(call.df)
        /\ \A i \in 1..Len(call.df) :
              (\A k \in 1..Len(FeatureColumns) :
                   InUnitInterval(call.df[i][FeatureColumns[k]]))
                 => InUnitInterval(call.ret[i].team_strength_index)

\* the row of nine ones, whose index is the largest of the unit cube
C18_Witness ==
    /\ Composed
    /\ \A k \in 1..Len(FeatureColumns) : call.df[1][FeatureColumns[k]] = RInt(1)
    /\ call.ret[1].team_strength_index = Rat(1403, 2000)

(***************************************************************************)
(* C19  Permissive fitting: a FeatureEngineer starts with is_fitted false; *)
(* prepare_features with fit_scaler = false on a never-fitted engineer     *)
(* succeeds by fitting imputer and scaler on the given batch; after a      *)
(* prepare_features call is_fitted is true, and it never becomes false     *)
(* again.                                                                  *)
(***************************************************************************)
PrepareStep == call.op = "idle" /\ call'.op = "prepare_features"

C19_PermissiveFitting ==
    /\ is_fitted = FALSE
    /\ [][/\ is_fitted => is_fitted'
          /\ PrepareStep =>
                /\ is_fitted'
                /\ call'.df = call'.features
                /\ (~is_fitted /\ ~call'.fit_scaler) =>
                      /\ scaler' = FitStatistics(call'.features)
                      /\ call'.X = [rows |-> call'.features,
                                    stats |-> FitStatistics(call'.features)]]_vars

C19_Witness ==
    /\ call.op = "prepare_features"
    /\ ~call.fitted_before
    /\ ~call.fit_scaler
    /\ is_fitted
    /\ scaler = FitStatistics(call.features)

(***************************************************************************)
(* C20  Reuse of learned statistics: on a fitted FeatureEngineer,          *)
(* prepare_features with fit_scaler = false standardizes the batch with    *)
(* the statistics of the most recent fitting call and leaves them          *)
(* unchanged; fit_scaler = true replaces them with the statistics of the   *)
(* current batch.                                                          *)
(***************************************************************************)
C20_ReuseOfStatistics ==
    [][(PrepareStep /\ is_fitted) =>
          /\ call'.X.rows = call'.features
          /\ IF call'.fit_scaler
             THEN /\ scaler' = FitStatistics(call'.features)
                  /\ call'.X.stats = FitStatistics(call'.features)
             ELSE /\ scaler' = scaler
                  /\ call'.X.stats = scaler]_vars

\* an inference batch standardized by statistics that are not its own
C20_Witness ==
    /\ call.op = "prepare_features"
    /\ call.fitted_before
    /\ ~call.fit_scaler
    /\ call.X.stats = scaler
    /\ scaler # FitStatistics(call.features)
    /\ Len(call.features) > 1

(***************************************************************************)
(* C21  The predictor does not mutate the trainer: a predict_placements    *)
(* call leaves is_trained, best_model, best_model_name and the candidate   *)
(* set of the ModelTrainer unchanged, whatever the trainer's state.        *)
(***************************************************************************)
C21_PredictorLeavesTrainer ==
    [][(call.op = "idle" /\ call'.op = "predict_placements") =>
          /\ is_trained' = is_trained
          /\ best_model' = best_model
          /\ best_model_name' = best_model_name
          /\ models' = models]_vars

\* a call that fell back because the trainer claims to be trained but has
\* no model
C21_Witness ==
    /\ Placed /\ call.fallback
    /\ is_trained
    /\ best_model = NoneRef
    /\ Len(call.teams) > 1

(***************************************************************************)
(* C22  Historical flag: a tournament loaded by TournamentManager has      *)
(* is_historical true exactly when at least one of its team descriptors    *)
(* carries actual_placement; every tournament returned by                  *)
(* get_future_tournaments has an empty get_actual_placements map.          *)
(***************************************************************************)
C22_HistoricalFlag ==
    /\ \A key \in DOMAIN tournaments :
          tournaments[key].is_historical <=>
              \E k \in 1..Len(tournaments[key].teams) :
                  "actual_placement" \in DOMAIN tournaments[key].teams[k]
    /\ \A tournament \in get_future_tournaments(tournaments) :
          DOMAIN get_actual_placements(tournament) = {}

(***************************************************************************)
(* C23  Persistence round trip: save_model on a trained trainer writes a   *)
(* blob whose model predicts as the saving trainer does; load_model of     *)
(* such a blob on any trainer sets is_trained, best_model and              *)
(* best_model_name from the blob without touching the candidates, so that  *)
(* predict returns the saved model's outputs; save_model on an untrained   *)
(* trainer writes nothing and load_model without a file changes nothing.   *)
(***************************************************************************)
ProbeMatrices == {prepare_features_fit(extract_features(teams, now)).X : teams \in ExtractBatches}

C23_PersistenceRoundTrip ==
    [][/\ (call.op = "idle" /\ call'.op = "save_model") =>
             IF is_trained /\ best_model # NoneRef
             THEN /\ disk'.exists
                  /\ disk'.is_trained
                  /\ disk'.model_name = best_model_name
                  /\ \A X \in ProbeMatrices :
                        /\ predict(TrainerState, X).raised = None
                        /\ predict(TrainerState, X).ret
                              = EstimatorPredict(disk'.model.est, X)
             ELSE disk' = disk
       /\ (call.op = "idle" /\ call'.op = "load_model") =>
             IF disk.exists
             THEN /\ is_trained'
                  /\ best_model' = disk.model
                  /\ best_model_name' = disk.model_name
                  /\ models' = models
                  /\ \A X \in ProbeMatrices :
                        /\ predict(TrainerState', X).raised = None
                        /\ predict(TrainerState', X).ret
                              = EstimatorPredict(disk.model.est, X)
             ELSE UNCHANGED trainerVars]_vars

\* a tuned model loaded by a trainer whose own training stopped part-way
C23_Witness ==
    /\ call.op = "load_model"
    /\ is_trained
    /\ best_model = disk.model
    /\ best_model.est.tuned
    /\ best_model_name \in ModelNames
    /\ models[best_model_name].fit > 0
    /\ \E name \in ModelNames : models[name].fit = 0

(***************************************************************************)
(* C24.  For a team with n >= 1 recent matches, recent_form is the sum of  *)
(* 1/(i+1) over the wins among entries 0..min(6,n)-1 divided by the sum of *)
(* 1/(i+1) over all of those entries.  It lies in [0,1], it is 1 exactly   *)
(* when all of those entries are wins, and the entries at index 6 or later *)
(* do not change it.  Weights are written over the common denominator 60.  *)
(***************************************************************************)
HarmonicWeights == <<60, 30, 20, 15, 12, 10>>

FormOf(history) == calculate_team_performance(
                       [recent_matches |-> history]).recent_form

C24_RecentForm ==
    (call.op = "process_team" /\ Len(call.team.recent_matches) >= 1) =>
        LET ms == call.team.recent_matches
            k == IF Len(ms) < 6 THEN Len(ms) ELSE 6
            won == {i \in 1..k : ms[i].result = "win"}
            total == RSum([i \in 1..k |-> RInt(HarmonicWeights[i])])[1]
            gained == RSum([i \in 1..k |->
                             RInt(IF i \in won THEN HarmonicWeights[i] ELSE 0)])[1]
            form == call.features[1].recent_form
        IN  /\ form = Rat(gained, total)
            /\ RLeq(RInt(0), form) /\ RLeq(form, RInt(1))
            /\ (form = RInt(1)) <=> (won = 1..k)
            /\ form = FormOf(SubSeq(ms, 1, k))

\* a seven-match history whose first six are wins and whose seventh is a loss
C24_Witness ==
    /\ call.op = "process_team"
    /\ Len(call.team.recent_matches) = 7
    /\ \A i \in 1..6 : call.team.recent_matches[i].result = "win"
    /\ call.team.recent_matches[7].result = "loss"
    /\ call.features[1].recent_form = RInt(1)

(***************************************************************************)
(* C25.  Every raw placement of the fallback heuristic lies in [1,8]; a    *)
(* team with a strictly higher linear composite score never gets a higher  *)
(* raw placement than a team with a lower score; and when all teams of the *)
(* batch have the same score, a batch of one included, every team gets raw *)
(* placement 8.  A raw value q + eps is compared with the infinitesimal    *)
(* taken into account.                                                     *)
(***************************************************************************)
RawAtMost(a, b) == RLess(a.q, b.q) \/ (a.q = b.q /\ (a.eps => b.eps))

HeuristicScores ==
    LET df == extract_features(call.teams, now)
    IN  [i \in 1..Len(df) |->
            RSum(<< RMul(Rat(15, 100), df[i].roster_stability),
                    RMul(Rat(35, 100), df[i].avg_player_rating),
                    RMul(Rat(50, 100), df[i].win_rate),
                    RMul(Rat(30, 100), df[i].recent_form),
                    RMul(Rat(20, 100), df[i].strength_of_schedule) >>)] \o <<>>

C25_FallbackScores ==
    (call.op = "predict_placements" /\ call.fallback /\ call.raised = None) =>
        \E scores \in {HeuristicScores} :
            LET raw == call.predictions
                n == Len(call.teams)
            IN  /\ Len(raw) = n
                /\ \A i \in 1..n : /\ RawAtMost(Raw(RInt(1), FALSE), raw[i])
                                   /\ RawAtMost(raw[i], Raw(RInt(8), FALSE))
                /\ \A i, j \in 1..n : RLess(scores[j], scores[i]) =>
                                          RawAtMost(raw[i], raw[j])
                /\ (\A i, j \in 1..n : scores[i] = scores[j]) =>
                       \A i \in 1..n : raw[i] = Raw(RInt(8), FALSE)

\* a fallback batch with three different scores, ranked in reverse
C25_Witness ==
    /\ call.op = "predict_placements" /\ call.fallback /\ call.raised = None
    /\ \E scores \in {HeuristicScores} :
         \E i, j, k \in 1..Len(call.teams) :
            /\ RLess(scores[k], scores[j]) /\ RLess(scores[j], scores[i])
            /\ call.predictions[k] = Raw(RInt(8), FALSE)
            /\ ~RawAtMost(call.predictions[j], call.predictions[i])
            /\ ~RawAtMost(call.predictions[k], call.predictions[j])

(***************************************************************************)
(* C26.  After a successful historical training, the matrix on which       *)
(* predict_tournament and predict_custom_teams evaluate the trained model  *)
(* is standardized with the statistics learned on the training batch.      *)
(***************************************************************************)
C26_SameScaleAtInference ==
    (/\ call.op \in {"predict_tournament", "predict_custom_teams"}
     /\ call.trained /\ ~call.fallback /\ call.raised = None) =>
        /\ scaler = FitStatistics(extract_features(call.historical, now))
        /\ call.X_processed.stats = scaler
        /\ call.evaluated.stats = scaler

(***************************************************************************)
(* C27.  Once is_trained is true, a call of predict, hyperparameter_tuning *)
(* or save_model leaves it true; the only call after which a trained       *)
(* trainer is no longer trained is train_models.                           *)
(***************************************************************************)
C27_OneWayTrained ==
    [][/\ (/\ is_trained /\ call.op = "idle"
           /\ call'.op \in {"predict", "hyperparameter_tuning", "save_model"})
              => is_trained'
       /\ (is_trained /\ ~is_trained') => call'.op = "train_models"]_vars

\* a trained trainer after a tuning whose grid search raised
C27_Witness ==
    /\ call.op = "hyperparameter_tuning"
    /\ call.rows >= tune_min_rows /\ call.failed
    /\ is_trained

(***************************************************************************)
(* C28.  hyperparameter_tuning on a trained trainer with at least          *)
(* tune_min_rows rows: when the grid search succeeds, best_model is        *)
(* replaced by the tuned estimator of the family best_model_name, and      *)
(* best_model_name and is_trained keep their values; when the grid search  *)
(* raises, no exception leaves the call and best_model, best_model_name    *)
(* and is_trained are unchanged.                                           *)
(***************************************************************************)
C28_Tuning ==
    [][(/\ call.op = "idle" /\ call'.op = "hyperparameter_tuning"
        /\ is_trained /\ call'.rows >= tune_min_rows) =>
          /\ call'.raised = None
          /\ best_model_name' = best_model_name
          /\ is_trained' = is_trained
          /\ IF call'.failed
             THEN best_model' = best_model
             ELSE /\ best_model'.kind = "object"
                  /\ best_model'.est.tuned
                  /\ best_model'.est.family = best_model_name
                  /\ best_model'.est.fit > 0]_vars

\* a tuned estimator in place of the selected candidate
C28_Witness ==
    /\ call.op = "hyperparameter_tuning"
    /\ call.rows >= tune_min_rows /\ ~call.failed
    /\ is_trained
    /\ best_model.kind = "object" /\ best_model.est.tuned
    /\ best_model.est.family = best_model_name
    /\ ~models[best_model_name].tuned

(***************************************************************************)
(* C29.  Whatever train_models, hyperparameter_tuning, predict, save_model *)
(* and load_model calls have been made, with the file at the model path    *)
(* written by save_model: a trainer with is_trained = true has a           *)
(* best_model that is not None and a best_model_name among the three       *)
(* candidate keys, and predict on it does not raise the not-fitted error.  *)
(***************************************************************************)
C29_TrainerInvariant ==
    /\ is_trained =>
          /\ best_model # NoneRef
          /\ best_model.kind \in {"candidate", "object"}
          /\ best_model_name \in ModelNames
          /\ \A X \in ProbeMatrices : predict(TrainerState, X).raised = None
    /\ (call.op = "predict" /\ is_trained) =>
          call.raised = None /\ ~call.ret_none

\* predict on a trainer that owes its trained state to load_model alone
C29_Witness ==
    /\ call.op = "predict" /\ call.raised = None
    /\ is_trained
    /\ best_model.kind = "object"
    /\ \A name \in ModelNames : models[name].fit = 0

(***************************************************************************)
(* C30.  A train_models call on a trained trainer that is given fewer than *)
(* train_min_rows rows, or in which the library raises, leaves is_trained  *)
(* false and best_model and best_model_name as they were.  As long as      *)
(* is_trained is false, predict raises the not-fitted error and the        *)
(* predictor uses the fallback heuristic; is_trained becomes true again    *)
(* only by a train_models call that succeeds or by a load_model call.      *)
(***************************************************************************)
C30_FailedRetraining ==
    [][/\ (/\ call.op = "idle" /\ call'.op = "train_models" /\ is_trained
           /\ (call'.rows < train_min_rows \/ call'.failed)) =>
              /\ ~is_trained'
              /\ best_model' = best_model
              /\ best_model_name' = best_model_name
              /\ call'.ret_none /\ call'.raised = None
       /\ (call.op = "idle" /\ ~is_trained /\ call'.op = "predict") =>
              call'.raised = "NotFittedError" /\ ~is_trained'
       /\ (call.op = "idle" /\ ~is_trained /\ call'.op = "predict_placements") =>
              /\ call'.fallback /\ call'.raised = None /\ ~is_trained'
              /\ call'.predictions =
                     _fallback_prediction(extract_features(call'.teams, now))
       /\ (~is_trained /\ is_trained') =>
              \/ call'.op = "load_model"
              \/ /\ call'.op = "train_models"
                 /\ call'.rows >= train_min_rows /\ ~call'.failed]_vars

\* the predictor falling back on a trainer that still holds the model
\* selected before its retraining failed
C30_Witness ==
    /\ call.op = "predict_placements" /\ call.fallback
    /\ ~is_trained
    /\ best_model # NoneRef
    /\ best_model_name \in ModelNames
    /\ Deref(TrainerState, best_model).fit > 0

====
